---- MODULE Spec2Model ----
(***************************************************************************)
(* Reparse-point resolution engine of the Detours sandbox                  *)
(* (Source/Sandbox/Windows/DetoursServices/DetouredFunctions.cpp):         *)
(* the resolved-path cache, the reparse target reader, the relative target *)
(* resolver, the two chain walkers and the detours that invalidate the     *)
(* cache.                                                                  *)
(*                                                                         *)
(* Path strings are sequences of one-character strings, so that the        *)
(* string arithmetic of the source (find_last_of, substr, append) is       *)
(* modelled as written.                                                    *)
(***************************************************************************)
EXTENDS Integers, Sequences, FiniteSets, TLC

(***************************************************************************)
(* Bounds of the model.                                                    *)
(***************************************************************************)
\* longest chain a walker may build before the model stops stepping it
MaxChain == 5
\* number of detoured operations (mutating or resolving) in one behaviour
MaxOps == 3

(***************************************************************************)
(* A local variable of the source: the value is computed once and the rest *)
(* of the function refers to it by name.                                   *)
(***************************************************************************)
Let(value, In(_)) == In(value)

(***************************************************************************)
(* Characters and strings.                                                 *)
(***************************************************************************)
BS == "\\"

npos == -1

\* towlower on the alphabet of the model
towlower(c) ==
    CASE c = "A" -> "a" [] c = "B" -> "b" [] c = "C" -> "c" [] c = "D" -> "d"
      [] c = "E" -> "e" [] c = "L" -> "l" [] c = "N" -> "n" [] c = "O" -> "o"
      [] c = "P" -> "p" [] c = "Q" -> "q" [] c = "S" -> "s" [] c = "T" -> "t"
      [] c = "X" -> "x" [] c = "Y" -> "y"
      [] OTHER -> c

\* towupper on the alphabet of the model
towupper(c) ==
    CASE c = "a" -> "A" [] c = "b" -> "B" [] c = "c" -> "C" [] c = "d" -> "D"
      [] c = "e" -> "E" [] c = "l" -> "L" [] c = "n" -> "N" [] c = "o" -> "O"
      [] c = "p" -> "P" [] c = "q" -> "Q" [] c = "s" -> "S" [] c = "t" -> "T"
      [] c = "x" -> "X" [] c = "y" -> "Y"
      [] OTHER -> c

\* code unit of a character of the model's alphabet
wchar(c) ==
    CASE c = " " -> 32 [] c = "." -> 46 [] c = "/" -> 47 [] c = ":" -> 58
      [] c = "\\" -> 92
      [] c = "A" -> 65 [] c = "B" -> 66 [] c = "C" -> 67 [] c = "D" -> 68
      [] c = "E" -> 69 [] c = "L" -> 76 [] c = "N" -> 78 [] c = "O" -> 79
      [] c = "P" -> 80 [] c = "Q" -> 81 [] c = "S" -> 83 [] c = "T" -> 84
      [] c = "X" -> 88 [] c = "Y" -> 89
      [] c = "a" -> 97 [] c = "b" -> 98 [] c = "c" -> 99 [] c = "d" -> 100
      [] c = "e" -> 101 [] c = "l" -> 108 [] c = "n" -> 110 [] c = "o" -> 111
      [] c = "p" -> 112 [] c = "q" -> 113 [] c = "s" -> 115 [] c = "t" -> 116
      [] c = "x" -> 120 [] c = "y" -> 121
      [] OTHER -> 0

\* UtilityHelpers.h: lengths order strings of different sizes; strings of the
\* same size are compared from the back on towlower-ed characters
\* (lexicographical_compare over rhs.rbegin()..rhs.rend() and lhs.rbegin()..)
CaseInsensitiveStringLessThan(lhs, rhs) ==
    IF Len(lhs) = Len(rhs)
    THEN \E i \in 1..Len(lhs) :
            /\ wchar(towlower(rhs[i])) < wchar(towlower(lhs[i]))
            /\ \A j \in (i+1)..Len(lhs) : towlower(rhs[j]) = towlower(lhs[j])
    ELSE Len(lhs) < Len(rhs)

\* two strings are the same key of a std::map ordered by
\* CaseInsensitiveStringLessThan iff neither is less than the other
SameKey(a, b) ==
    /\ ~CaseInsensitiveStringLessThan(a, b)
    /\ ~CaseInsensitiveStringLessThan(b, a)

\* std::map<wstring, ResolvedPathType, CaseInsensitiveStringLessThan>, as the
\* set of its (key, value) entries; emplace keeps an existing entry
MapHas(m, k) == \E e \in m : SameKey(e.key, k)

MapEmplace(m, k, v) == IF MapHas(m, k) THEN m ELSE m \cup {[key |-> k, val |-> v]}

MapAt(m, k) == (CHOOSE e \in m : SameKey(e.key, k)).val

\* a search that never finds the string
SeqContains_NeverFinds(order, s) == FALSE

\* std::find(order->begin(), order->end(), s): exact string comparison
SeqContains(order, s) == \E i \in 1..Len(order) : order[i] = s

(***************************************************************************)
(* std::wstring operations used by the source.  Positions are 0-based as   *)
(* in C++; npos is -1.                                                     *)
(***************************************************************************)
\* s.substr(pos, n)
substr(s, pos, n) ==
    LET m == IF pos + n > Len(s) THEN Len(s) - pos ELSE n
    IN  SubSeq(s, pos + 1, pos + m)

\* s.substr(pos)
substrFrom(s, pos) == substr(s, pos, Len(s) - pos)

\* s.find_last_of(c, pos): the last index <= pos holding c; pos = npos (and
\* any pos beyond the end) searches the whole string
find_last_of(s, c, pos) ==
    LET last == IF pos = npos \/ pos >= Len(s) THEN Len(s) - 1 ELSE pos
        hits == {i \in 0..last : s[i + 1] = c}
    IN  IF hits = {} THEN npos
        ELSE CHOOSE i \in hits : \A j \in hits : j <= i

(***************************************************************************)
(* Path utilities.                                                         *)
(***************************************************************************)
\* directory-separator test of the canonicalization utility
IsDirectorySeparator(c) == c = "\\" \/ c = "/"

\* root-length computation of the canonicalization utility: "C:\" is 3,
\* "C:" is 2, a path starting with a separator has a root of 1 character, a
\* relative path has no root
GetRootLength(path) ==
    IF Len(path) > 0 /\ IsDirectorySeparator(path[1]) THEN 1
    ELSE IF Len(path) >= 2 /\ path[2] = ":"
         THEN (IF Len(path) >= 3 /\ IsDirectorySeparator(path[3]) THEN 3 ELSE 2)
         ELSE 0

\* the inner loop of SplitPathsReverse:
\*   while (i > rootLength && !IsDirectorySeparator(dir[i])) --i;
RECURSIVE SkipAtom(_, _, _)
SkipAtom(dir, i, rootLength) ==
    IF i > rootLength /\ ~IsDirectorySeparator(dir[i + 1])
    THEN SkipAtom(dir, i - 1, rootLength)
    ELSE i

\* the outer loop of SplitPathsReverse, from `while (i >= rootLength)` to the
\* final push of what is left of dir; i is a size_t, so i >= 0 always holds
RECURSIVE SplitLoop(_, _, _, _)
SplitLoop(dir, i, rootLength, atoms) ==
    IF i >= rootLength
    THEN LET j      == SkipAtom(dir, i, rootLength)
             atoms1 == IF j >= rootLength THEN Append(atoms, substrFrom(dir, j)) ELSE atoms
             dir1   == substr(dir, 0, j)
         IN  IF j = 0
             THEN (IF dir1 # <<>> THEN Append(atoms1, dir1) ELSE atoms1)
             ELSE SplitLoop(dir1, j - 1, rootLength, atoms1)
    ELSE (IF dir # <<>> THEN Append(atoms, dir) ELSE atoms)

\* SplitPathsReverse(path, atoms): appends the atoms of path to atoms, the
\* deepest first; every atom but the first of the path keeps its leading
\* separator
SplitPathsReverse(path, atoms) ==
    LET len0       == Len(path)
        length     == IF len0 >= 2 /\ IsDirectorySeparator(path[len0]) THEN len0 - 1 ELSE len0
        rootLength == GetRootLength(path)
    IN  IF length <= rootLength THEN atoms
        ELSE SplitLoop(path, length - 1, rootLength, atoms)

(***************************************************************************)
(* Relative target resolver.                                               *)
(***************************************************************************)
\* relativeTarget starts with ".\" at pos (length is what is left of it)
StartWithDotSlash(relativeTarget, pos, length) ==
    /\ length >= 2
    /\ relativeTarget[pos + 1] = "."
    /\ relativeTarget[pos + 2] = "\\"

\* relativeTarget starts with "..\" at pos
StartWithDotDotSlash(relativeTarget, pos, length) ==
    /\ length >= 3
    /\ relativeTarget[pos + 1] = "."
    /\ relativeTarget[pos + 2] = "."
    /\ relativeTarget[pos + 3] = "\\"

\* the loop of TryResolveRelativeTarget that consumes the leading ".\" and
\* "..\" of the target; lastSeparator - 1 is computed on a size_t, so that
\* 0 - 1 is npos.  processed is <<>> and hasProcessed FALSE when the caller
\* passed nullptr
RECURSIVE DotLoop(_, _, _, _, _, _, _)
DotLoop(result, relativeTarget, pos, length, lastSeparator, processed, hasProcessed) ==
    LET ds  == StartWithDotSlash(relativeTarget, pos, length)
        dds == StartWithDotDotSlash(relativeTarget, pos, length)
    IN  IF (dds \/ ds) /\ lastSeparator # npos
        THEN IF ds
             THEN DotLoop(result, relativeTarget, pos + 2, length - 2, lastSeparator,
                          processed, hasProcessed)
             ELSE DotLoop(result, relativeTarget, pos + 3, length - 3,
                          find_last_of(result, "\\", lastSeparator - 1),
                          IF hasProcessed /\ processed # <<>>
                            THEN SubSeq(processed, 1, Len(processed) - 1)
                            ELSE processed,
                          hasProcessed)
        ELSE [pos |-> pos, length |-> length, lastSeparator |-> lastSeparator,
              processed |-> processed, dds |-> dds]

\* a resolver that does not trim the separator at the end of the prefix
TryResolveRelativeTargetSimple_KeepsEndingSeparator(result0, relativeTarget, processed0, need0, withLists) ==
    LET failed == [ok |-> FALSE, result |-> result0, processed |-> processed0, need |-> need0]
    IN  Let(result0, LAMBDA result1 :
        Let(find_last_of(result1, "\\", npos), LAMBDA lastSeparator :
        IF result0 = <<>> \/ lastSeparator = npos THEN failed
        ELSE IF withLists /\ processed0 = <<>> THEN [failed EXCEPT !.result = result1]
        ELSE
          Let(DotLoop(result1, relativeTarget, 0, Len(relativeTarget), lastSeparator,
                      IF withLists THEN SubSeq(processed0, 1, Len(processed0) - 1)
                      ELSE processed0,
                      withLists), LAMBDA l :
          IF l.lastSeparator = npos /\ l.dds
          THEN [ok |-> FALSE, result |-> result1, processed |-> l.processed, need |-> need0]
          ELSE
            Let(substr(relativeTarget, l.pos, l.length), LAMBDA slicedTarget :
            Let(substr(result1, 0, IF l.lastSeparator # npos THEN l.lastSeparator ELSE 0),
                LAMBDA result2 :
            IF withLists
            THEN [ok |-> TRUE, result |-> result2, processed |-> l.processed,
                  need |-> SplitPathsReverse(slicedTarget, need0)]
            ELSE [ok |-> TRUE, result |-> result2 \o <<"\\">> \o slicedTarget,
                  processed |-> l.processed, need |-> need0])))))

\* TryResolveRelativeTarget(result, relativeTarget, processed, needToBeProcessed):
\* the reparse point that result names is replaced by its relative target.
\* withLists is FALSE when both vector pointers are nullptr.  An empty result
\* makes the source read result[npos]; every outcome of that read ends in
\* `return false` because find_last_of finds no separator in an empty string
TryResolveRelativeTargetSimple(result0, relativeTarget, processed0, need0, withLists) ==
    LET failed == [ok |-> FALSE, result |-> result0, processed |-> processed0, need |-> need0]
    IN  Let(IF result0 # <<>> /\ result0[Len(result0)] = "\\"
            THEN substr(result0, 0, Len(result0) - 1)
            ELSE result0, LAMBDA result1 :
        Let(find_last_of(result1, "\\", npos), LAMBDA lastSeparator :
        IF result0 = <<>> \/ lastSeparator = npos THEN failed
        ELSE IF withLists /\ processed0 = <<>> THEN [failed EXCEPT !.result = result1]
        ELSE
          Let(DotLoop(result1, relativeTarget, 0, Len(relativeTarget), lastSeparator,
                      IF withLists THEN SubSeq(processed0, 1, Len(processed0) - 1)
                      ELSE processed0,
                      withLists), LAMBDA l :
          IF l.lastSeparator = npos /\ l.dds
          THEN [ok |-> FALSE, result |-> result1, processed |-> l.processed, need |-> need0]
          ELSE
            Let(substr(relativeTarget, l.pos, l.length), LAMBDA slicedTarget :
            Let(substr(result1, 0, IF l.lastSeparator # npos THEN l.lastSeparator ELSE 0),
                LAMBDA result2 :
            IF withLists
            THEN [ok |-> TRUE, result |-> result2, processed |-> l.processed,
                  need |-> SplitPathsReverse(slicedTarget, need0)]
            ELSE [ok |-> TRUE, result |-> result2 \o <<"\\">> \o slicedTarget,
                  processed |-> l.processed, need |-> need0])))))

(***************************************************************************)
(* The file system the sandboxed process runs on.  fs maps the lower-cased *)
(* absolute path of every existing object to its node:                     *)
(*   tag    0 for a plain file or directory, else the reparse tag          *)
(*   dir    FILE_ATTRIBUTE_DIRECTORY                                       *)
(*   printName       the print name of the reparse data buffer             *)
(*   substituteName  the substitute name of the reparse data buffer        *)
(***************************************************************************)
\* Reparse tags, by the tag value in their low 16 bits (0xA000000C, 0xA0000003
\* and 0x8000001B do not fit the integers of the model checker)
IO_REPARSE_TAG_SYMLINK == 12

IO_REPARSE_TAG_MOUNT_POINT == 3

\* a reparse tag that is neither a symlink nor a mount point
IO_REPARSE_TAG_APPEXECLINK == 27

File == [tag |-> 0, dir |-> FALSE, printName |-> <<>>, substituteName |-> <<>>]

Dir == [tag |-> 0, dir |-> TRUE, printName |-> <<>>, substituteName |-> <<>>]

SymlinkTo(target, isDir) ==
    [tag |-> IO_REPARSE_TAG_SYMLINK, dir |-> isDir, printName |-> target, substituteName |-> target]

JunctionTo(target) ==
    [tag |-> IO_REPARSE_TAG_MOUNT_POINT, dir |-> TRUE, printName |-> target, substituteName |-> target]

AppLink == [tag |-> IO_REPARSE_TAG_APPEXECLINK, dir |-> FALSE, printName |-> <<>>, substituteName |-> <<>>]

\* the file system compares names without regard to case
FsKey(path) == [i \in 1..Len(path) |-> towlower(path[i])]

\* the components of a path: "C:\a\b" is <<"C:", "a", "b">>; empty components
\* (doubled or trailing separators) are dropped
RECURSIVE Components(_, _, _)
Components(path, i, cur) ==
    IF i > Len(path)
    THEN (IF cur = <<>> THEN <<>> ELSE <<cur>>)
    ELSE IF IsDirectorySeparator(path[i])
         THEN (IF cur = <<>> THEN <<>> ELSE <<cur>>) \o Components(path, i + 1, <<>>)
         ELSE Components(path, i + 1, Append(cur, path[i]))

\* components joined by "\"
RECURSIVE JoinComponents(_)
JoinComponents(comps) ==
    IF comps = <<>> THEN <<>>
    ELSE IF Len(comps) = 1 THEN comps[1]
    ELSE JoinComponents(SubSeq(comps, 1, Len(comps) - 1)) \o <<"\\">> \o comps[Len(comps)]

\* "." components dropped and ".." components resolved against what precedes
\* them; the drive (first component) is never removed
RECURSIVE CollapseDots(_, _)
CollapseDots(comps, acc) ==
    IF comps = <<>> THEN acc
    ELSE LET c == comps[1]
             rest == SubSeq(comps, 2, Len(comps))
         IN  IF c = <<".">> THEN CollapseDots(rest, acc)
             ELSE IF c = <<".", ".">>
                  THEN CollapseDots(rest, IF Len(acc) > 1 THEN SubSeq(acc, 1, Len(acc) - 1) ELSE acc)
                  ELSE CollapseDots(rest, Append(acc, c))

\* PathCchCanonicalizeEx on a drive-rooted path: separators normalised, "."
\* and ".." collapsed, case kept; the root of a drive keeps its separator
PathCchCanonicalizeEx(path) ==
    LET comps == CollapseDots(Components(path, 1, <<>>), <<>>)
    IN  IF Len(comps) = 1 THEN comps[1] \o <<"\\">> ELSE JoinComponents(comps)

\* how deep the operating system follows reparse points while it opens a path
MaxFollow == 4

\* The name resolution of the operating system: the key of the object that
\* path names, or <<>> when there is none.  Reparse points met in directory
\* position are followed; the last component is followed only when
\* followLast is set (an open without FILE_FLAG_OPEN_REPARSE_POINT).
RECURSIVE OsWalk(_, _, _, _, _)
OsWalk(fs, done, todo, followLast, fuel) ==
    IF todo = <<>> THEN FsKey(JoinComponents(done))
    ELSE LET here == Append(done, todo[1])
             key  == FsKey(JoinComponents(here))
             rest == SubSeq(todo, 2, Len(todo))
         IN  IF Len(here) = 1 THEN OsWalk(fs, here, rest, followLast, fuel)
             ELSE IF key \notin DOMAIN fs THEN <<>>
             ELSE IF fs[key].tag \in {IO_REPARSE_TAG_SYMLINK, IO_REPARSE_TAG_MOUNT_POINT}
                     /\ (rest # <<>> \/ followLast)
                  THEN IF fuel = 0 THEN <<>>
                       ELSE LET t == fs[key].substituteName
                                base == IF GetRootLength(t) > 0
                                        THEN Components(t, 1, <<>>)
                                        ELSE done \o Components(t, 1, <<>>)
                            IN  OsWalk(fs, <<>>, CollapseDots(base, <<>>) \o rest,
                                       followLast, fuel - 1)
                  ELSE OsWalk(fs, here, rest, followLast, fuel)

\* the object a path names when it is opened with FILE_FLAG_OPEN_REPARSE_POINT
\* (and for GetFileAttributesW and FindFirstFileW, which never follow the last
\* component)
OsObject(fs, path) ==
    IF path = <<>> THEN <<>>
    ELSE OsWalk(fs, <<>>, CollapseDots(Components(path, 1, <<>>), <<>>), FALSE, MaxFollow)

\* the node of the object path names, or NoObject
NoObject == [tag |-> 0 - 1, dir |-> FALSE, printName |-> <<>>, substituteName |-> <<>>]

OsNode(fs, path) ==
    Let(OsObject(fs, path), LAMBDA key :
        IF key = <<>> THEN NoObject
        ELSE IF key \in DOMAIN fs THEN fs[key]
        ELSE IF Len(Components(key, 1, <<>>)) = 1 THEN Dir
        ELSE NoObject)

\* GetFileAttributesW(path) # INVALID_FILE_ATTRIBUTES
PathExists(fs, path) == OsNode(fs, path) # NoObject

(***************************************************************************)
(* Resolved path cache (ResolvedPathCache::Instance()).  The three memo    *)
(* kinds are keyed by the path compared without regard to case:            *)
(*   check   path -> is the path a reparse point                           *)
(*   target  path -> (target string, reparse point type), type 0 being the *)
(*           memo of `not an actionable reparse point`                     *)
(*   chains  (path, preserve last reparse point) -> (order, resolvedPaths) *)
(***************************************************************************)
EmptyCache == [check |-> <<>>, target |-> <<>>, chains |-> <<>>]

NotFound == [Found |-> FALSE, Value |-> <<>>]

CacheKey(path) == [i \in 1..Len(path) |-> towlower(path[i])]

ResolvedPathCache_GetResolvingCheckResult(c, path) ==
    IF CacheKey(path) \in DOMAIN c.check
    THEN [Found |-> TRUE, Value |-> c.check[CacheKey(path)]]
    ELSE NotFound

ResolvedPathCache_InsertResolvingCheckResult(c, path, result) ==
    IF CacheKey(path) \in DOMAIN c.check THEN c
    ELSE [c EXCEPT !.check = (CacheKey(path) :> result) @@ c.check]

ResolvedPathCache_GetResolvedPathAndType(c, path) ==
    IF CacheKey(path) \in DOMAIN c.target
    THEN [Found |-> TRUE, Value |-> c.target[CacheKey(path)]]
    ELSE NotFound

ResolvedPathCache_InsertResolvedPathWithType(c, path, resolved, reparsePointType) ==
    IF CacheKey(path) \in DOMAIN c.target THEN c
    ELSE [c EXCEPT !.target =
             (CacheKey(path) :> [first |-> resolved, second |-> reparsePointType]) @@ c.target]

ResolvedPathCache_GetResolvedPaths(c, path, preserveLastReparsePointInPath) ==
    IF <<CacheKey(path), preserveLastReparsePointInPath>> \in DOMAIN c.chains
    THEN [Found |-> TRUE,
          Value |-> c.chains[<<CacheKey(path), preserveLastReparsePointInPath>>]]
    ELSE NotFound

ResolvedPathCache_InsertResolvedPaths(c, path, preserveLastReparsePointInPath, order, resolvedPaths) ==
    IF <<CacheKey(path), preserveLastReparsePointInPath>> \in DOMAIN c.chains THEN c
    ELSE [c EXCEPT !.chains =
             (<<CacheKey(path), preserveLastReparsePointInPath>> :>
                 [first |-> order, second |-> resolvedPaths]) @@ c.chains]

\* restriction of a function to the arguments that satisfy keep
Restrict(f, keep(_)) == [k \in {x \in DOMAIN f : keep(x)} |-> f[k]]

\* an Invalidate that leaves the chains of path in the cache
ResolvedPathCache_Invalidate_KeepsChains(c, path, isDirectory) ==
    LET NotPath(k) == k # CacheKey(path)
    IN  [check  |-> Restrict(c.check, NotPath),
         target |-> Restrict(c.target, NotPath),
         chains |-> c.chains]

\* Invalidate(path, isDirectory): every memo kept for path is removed
ResolvedPathCache_Invalidate(c, path, isDirectory) ==
    LET NotPath(k) == k # CacheKey(path)
        NotChainOfPath(k) == k[1] # CacheKey(path)
    IN  [check  |-> Restrict(c.check, NotPath),
         target |-> Restrict(c.target, NotPath),
         chains |-> Restrict(c.chains, NotChainOfPath)]

(***************************************************************************)
(* State of the sandboxed process.                                         *)
(***************************************************************************)
VARIABLES
    fs,         \* the file system
    cache,      \* ResolvedPathCache::Instance()
    flags,      \* the global configuration flags of the process
    manifest,   \* the policy tree of the file access manifest
    walk,       \* the chain enforcement in progress, if any
    reports,    \* accesses reported to the orchestrator by the current call
    last,       \* the last call made and what it returned
    memo,       \* per path: the last non-bypassed TryGetReparsePointTarget
                \* answer since the path was last invalidated or modified
    ops         \* number of operations issued so far

vars == <<fs, cache, flags, manifest, walk, reports, last, memo, ops>>

IgnoreReparsePoints == flags.IgnoreReparsePoints

IgnoreFullReparsePointResolving == flags.IgnoreFullReparsePointResolving

(***************************************************************************)
(* Policy.  The manifest holds the scopes (path prefixes) whose policy     *)
(* enables full reparse point parsing and the paths it denies.             *)
(***************************************************************************)
\* CanonicalizedPath::Canonicalize: paths that are equivalent up to case and
\* "." segments normalize to the same string
Canonicalize(path) ==
    IF path = <<>> THEN <<>>
    ELSE LET n == PathCchCanonicalizeEx(path)
         IN  [i \in 1..Len(n) |-> towupper(n[i])]

\* prefix is path or an ancestor directory of path
IsPathPrefix(prefix, path) ==
    LET a == Components(CacheKey(prefix), 1, <<>>)
        b == Components(CacheKey(path), 1, <<>>)
    IN  Len(a) <= Len(b) /\ SubSeq(b, 1, Len(a)) = a

\* an Initialize that finds a policy for every path
PolicyResult_Initialize_AlwaysSucceeds(path) ==
    Let(Canonicalize(path), LAMBDA canonicalizedPath :
        [path       |-> canonicalizedPath,
         enableFull |-> \E scope \in manifest.full : IsPathPrefix(scope, path),
         untracked  |-> FALSE,
         deny       |-> CacheKey(canonicalizedPath) \in manifest.deny,
         indeterminate |-> FALSE])

\* PolicyResult::Initialize(path): the policy that applies to path;
\* `indeterminate` when no policy can be initialized for it (Initialize
\* returns false)
PolicyResult_Initialize(path) ==
    Let(Canonicalize(path), LAMBDA canonicalizedPath :
        [path       |-> canonicalizedPath,
         enableFull |-> \E scope \in manifest.full : IsPathPrefix(scope, path),
         untracked  |-> FALSE,
         deny       |-> CacheKey(canonicalizedPath) \in manifest.deny,
         indeterminate |-> CacheKey(canonicalizedPath) \in manifest.indeterminate])

EnableFullReparsePointParsing(policyResult) == policyResult.enableFull

\* the lowest level of the path of the policy from which on every level has
\* the property FileAccessPolicy_EnableFullReparsePointParsing
FindLowestConsecutiveLevelThatStillHasProperty(policyResult) ==
    LET scopes == {scope \in manifest.full : IsPathPrefix(scope, policyResult.path)}
        levels == {Len(Components(scope, 1, <<>>)) - 1 : scope \in scopes}
    IN  IF levels = {} THEN Len(Components(policyResult.path, 1, <<>>))
        ELSE CHOOSE l \in levels : \A m \in levels : l <= m

IgnoreFullReparsePointResolvingForPath(policyResult) ==
    IgnoreFullReparsePointResolving /\ ~EnableFullReparsePointParsing(policyResult)

GetLevelToEnableFullReparsePointParsing(policyResult) ==
    IF IgnoreFullReparsePointResolving
    THEN FindLowestConsecutiveLevelThatStillHasProperty(policyResult)
    ELSE 0

(***************************************************************************)
(* The PathCache_* gates in front of the cache.                            *)
(***************************************************************************)
\* PathCache_Invalidate that does not look at the flags and the policy
PathCache_Invalidate_Ungated(c, path, isDirectory, policyResult) ==
    ResolvedPathCache_Invalidate(c, path, isDirectory)

PathCache_Invalidate(c, path, isDirectory, policyResult) ==
    IF IgnoreReparsePoints \/ IgnoreFullReparsePointResolvingForPath(policyResult)
    THEN c
    ELSE ResolvedPathCache_Invalidate(c, path, isDirectory)

\* PathCache_GetResolvedPathAndType that never finds a memo
PathCache_GetResolvedPathAndType_NeverFound(c, path, policyResult) == NotFound

PathCache_GetResolvedPathAndType(c, path, policyResult) ==
    IF IgnoreReparsePoints \/ IgnoreFullReparsePointResolvingForPath(policyResult)
    THEN NotFound
    ELSE ResolvedPathCache_GetResolvedPathAndType(c, path)

\* PathCache_InsertResolvedPathWithType that stores nothing
PathCache_InsertResolvedPathWithType_StoresNothing(c, path, resolved, reparsePointType, policyResult) == c

PathCache_InsertResolvedPathWithType(c, path, resolved, reparsePointType, policyResult) ==
    IF IgnoreReparsePoints \/ IgnoreFullReparsePointResolvingForPath(policyResult)
    THEN c
    ELSE ResolvedPathCache_InsertResolvedPathWithType(c, path, resolved, reparsePointType)

PathCache_GetResolvingCheckResult(c, path, policyResult) ==
    IF IgnoreReparsePoints \/ IgnoreFullReparsePointResolvingForPath(policyResult)
    THEN NotFound
    ELSE ResolvedPathCache_GetResolvingCheckResult(c, path)

PathCache_InsertResolvingCheckResult(c, path, result, policyResult) ==
    IF IgnoreReparsePoints \/ IgnoreFullReparsePointResolvingForPath(policyResult)
    THEN c
    ELSE ResolvedPathCache_InsertResolvingCheckResult(c, path, result)

PathCache_InsertResolvedPaths(c, path, preserveLastReparsePointInPath, order, resolvedPaths, policyResult) ==
    IF IgnoreReparsePoints \/ IgnoreFullReparsePointResolvingForPath(policyResult)
    THEN c
    ELSE ResolvedPathCache_InsertResolvedPaths(c, path, preserveLastReparsePointInPath,
                                               order, resolvedPaths)

PathCache_GetResolvedPaths(c, path, preserveLastReparsePointInPath, policyResult) ==
    IF IgnoreReparsePoints \/ IgnoreFullReparsePointResolvingForPath(policyResult)
    THEN NotFound
    ELSE ResolvedPathCache_GetResolvedPaths(c, path, preserveLastReparsePointInPath)

(***************************************************************************)
(* Reparse target reader.                                                  *)
(***************************************************************************)
INVALID_HANDLE_VALUE == <<>>

ERROR_SUCCESS == 0

ERROR_ACCESS_DENIED == 5

ERROR_INSUFFICIENT_BUFFER == 122

ERROR_MORE_DATA == 234

ERROR_NOT_A_REPARSE_POINT == 4390

INITIAL_REPARSE_DATA_BUILDXL_DETOURS_BUFFER_SIZE_FOR_FILE_NAMES == 1024

\* What the device answers during one call: whether CreateFileW succeeds on
\* an existing path, and the error codes DeviceIoControl replies with, call
\* after call (ERROR_SUCCESS when it filled the buffer).
DeviceOk == [open |-> TRUE, replies |-> <<ERROR_SUCCESS>>]

DeviceGrow == [open |-> TRUE,
               replies |-> <<ERROR_INSUFFICIENT_BUFFER, ERROR_MORE_DATA, ERROR_SUCCESS>>]

DeviceOpenFails == [open |-> FALSE, replies |-> <<ERROR_SUCCESS>>]

DeviceQueryFails == [open |-> TRUE, replies |-> <<ERROR_ACCESS_DENIED>>]

DeviceOutcomes == {DeviceOk, DeviceGrow, DeviceOpenFails, DeviceQueryFails}

NoIo == [attr |-> 0, open |-> 0, ioctl |-> 0, close |-> 0]

AddIo(a, b) == [attr  |-> a.attr + b.attr,   open  |-> a.open + b.open,
                ioctl |-> a.ioctl + b.ioctl, close |-> a.close + b.close]

\* IsReparsePoint(lpFileName, hFile): by the handle when there is one, else by
\* GetFileAttributesW.  A handle is the key of the object it was opened on.
IsReparsePoint(lpFileName, hFile) ==
    IF hFile # INVALID_HANDLE_VALUE /\ hFile \in DOMAIN fs
    THEN fs[hFile].tag > 0
    ELSE OsNode(fs, lpFileName).tag > 0

\* GetReparsePointType(lpFileName, hFile): dwReserved0 of FindFirstFileW
GetReparsePointType(lpFileName, hFile) ==
    IF IsReparsePoint(lpFileName, hFile)
    THEN Let(OsNode(fs, lpFileName), LAMBDA findData :
             IF findData # NoObject THEN findData.tag ELSE 0)
    ELSE 0

\* only mount points are followed
IsActionableReparsePointType_MountPointsOnly(reparsePointType) ==
    reparsePointType = IO_REPARSE_TAG_MOUNT_POINT

IsActionableReparsePointType(reparsePointType) ==
    reparsePointType = IO_REPARSE_TAG_SYMLINK \/ reparsePointType = IO_REPARSE_TAG_MOUNT_POINT

\* GetTargetNameFromReparseData that reads the substitute name only
GetTargetNameFromReparseData_SubstituteNameOnly(node, reparsePointType, name) ==
    IF reparsePointType = IO_REPARSE_TAG_SYMLINK \/ reparsePointType = IO_REPARSE_TAG_MOUNT_POINT
    THEN node.substituteName
    ELSE name

\* GetTargetNameFromReparseData: the print name, unless it is empty or a
\* single space, in which case the substitute name
GetTargetNameFromReparseData(node, reparsePointType, name) ==
    IF reparsePointType = IO_REPARSE_TAG_SYMLINK \/ reparsePointType = IO_REPARSE_TAG_MOUNT_POINT
    THEN (IF node.printName = <<>> \/ node.printName = <<" ">> THEN node.substituteName ELSE node.printName)
    ELSE name

\* the loop `while (errorCode == ERROR_MORE_DATA || errorCode ==
\* ERROR_INSUFFICIENT_BUFFER)` around DeviceIoControl(FSCTL_GET_REPARSE_POINT)
RECURSIVE DeviceIoControlLoop(_, _, _, _)
DeviceIoControlLoop(errorCode, bufferSize, replies, calls) ==
    IF errorCode = ERROR_MORE_DATA \/ errorCode = ERROR_INSUFFICIENT_BUFFER
    THEN LET reply == IF replies = <<>> THEN ERROR_ACCESS_DENIED ELSE Head(replies)
             rest  == IF replies = <<>> THEN <<>> ELSE Tail(replies)
         IN  IF reply = ERROR_SUCCESS
             THEN DeviceIoControlLoop(ERROR_SUCCESS, bufferSize, rest, calls + 1)
             ELSE DeviceIoControlLoop(reply, bufferSize * 2, rest, calls + 1)
    ELSE [errorCode |-> errorCode, bufferSize |-> bufferSize, calls |-> calls]

\* an Epilogue that closes whatever handle the call used
Epilogue_CloseHandle_AnyHandle(hFile, hInput) ==
    IF hFile # INVALID_HANDLE_VALUE THEN 1 ELSE 0

\* the Epilogue of TryGetReparsePointTarget: the number of CloseHandle calls
Epilogue_CloseHandle(hFile, hInput) ==
    IF hFile # INVALID_HANDLE_VALUE /\ hFile # hInput THEN 1 ELSE 0

\* TryGetReparsePointTarget(path, hInput, target, policyResult) run on cache c
\* against a device that behaves as dev: the status returned, the target
\* string, the cache afterwards and the device I/O issued
TryGetReparsePointTarget(c, path, hInput, target0, policyResult, dev) ==
    Let(PathCache_GetResolvingCheckResult(c, path, policyResult), LAMBDA result :
    Let(IF result.Found THEN result.Value ELSE IsReparsePoint(path, hInput),
        LAMBDA isReparsePoint :
    Let(IF result.Found THEN c
        ELSE PathCache_InsertResolvingCheckResult(c, path, isReparsePoint, policyResult),
        LAMBDA c1 :
    Let(IF result.Found THEN NoIo ELSE [NoIo EXCEPT !.attr = 1], LAMBDA io1 :
    IF ~isReparsePoint
    THEN [status |-> FALSE, target |-> target0, cache |-> c1, io |-> io1]
    ELSE
      Let(PathCache_GetResolvedPathAndType(c1, path, policyResult), LAMBDA io_result :
      IF io_result.Found
      THEN [status |-> io_result.Value.second # 0,
            target |-> io_result.Value.first, cache |-> c1, io |-> io1]
      ELSE
        \* hInput, or CreateFileW(path, ..., FILE_FLAG_OPEN_REPARSE_POINT | ...)
        Let(OsObject(fs, path), LAMBDA object :
        Let(IF hInput # INVALID_HANDLE_VALUE THEN hInput
            ELSE IF dev.open /\ object \in DOMAIN fs THEN object
            ELSE INVALID_HANDLE_VALUE, LAMBDA hFile :
        LET opened == IF hInput # INVALID_HANDLE_VALUE THEN 0 ELSE 1
            closed == Epilogue_CloseHandle(hFile, hInput)
            Error(ioctls) ==
                [status |-> FALSE, target |-> target0,
                 cache  |-> PathCache_InsertResolvedPathWithType(c1, path, target0, 0,
                                                                 policyResult),
                 io     |-> AddIo(io1, [attr |-> 0, open |-> opened,
                                        ioctl |-> ioctls, close |-> closed])]
        IN  IF hFile = INVALID_HANDLE_VALUE THEN Error(0)
            ELSE
              Let(IF hFile \in DOMAIN fs THEN fs[hFile] ELSE NoObject, LAMBDA node :
              Let(DeviceIoControlLoop(
                      ERROR_INSUFFICIENT_BUFFER,
                      INITIAL_REPARSE_DATA_BUILDXL_DETOURS_BUFFER_SIZE_FOR_FILE_NAMES,
                      IF node.tag > 0 THEN dev.replies ELSE <<ERROR_NOT_A_REPARSE_POINT>>,
                      0), LAMBDA loop :
              Let(node.tag, LAMBDA reparsePointType :
              IF loop.errorCode # ERROR_SUCCESS THEN Error(loop.calls)
              ELSE IF ~IsActionableReparsePointType(reparsePointType)
              THEN Error(loop.calls)
              ELSE Let(GetTargetNameFromReparseData(node, reparsePointType, target0),
                       LAMBDA target :
                       [status |-> TRUE, target |-> target,
                        cache  |-> PathCache_InsertResolvedPathWithType(
                                       c1, path, target, reparsePointType, policyResult),
                        io     |-> AddIo(io1, [attr |-> 0, open |-> opened,
                                               ioctl |-> loop.calls,
                                               close |-> closed])])))))))))))

(***************************************************************************)
(* Relative targets in full (the prefixes of the path are resolved first)  *)
(* and the next path of a reparse point.                                   *)
(***************************************************************************)
\* how many atoms the full resolver may process before the model gives up
MaxAtoms == 12

\* the loop that keeps what it has accumulated when a prefix is a directory
\* symlink with a rooted target
RECURSIVE ResolvePrefixes_KeepsPrefix(_, _, _, _, _, _, _, _)
ResolvePrefixes_KeepsPrefix(c, result, processed, needToBeProcessed, policyResult, dev, io, fuel) ==
    IF needToBeProcessed = <<>>
    THEN [state |-> "break", result |-> result, cache |-> c, io |-> io]
    ELSE IF fuel = 0
    THEN [state |-> "fuel", result |-> result, cache |-> c, io |-> io]
    ELSE
      Let(needToBeProcessed[Len(needToBeProcessed)], LAMBDA atom :
      Let(SubSeq(needToBeProcessed, 1, Len(needToBeProcessed) - 1), LAMBDA need1 :
      Let(Append(processed, atom), LAMBDA processed1 :
      Let((IF result # <<>> /\ result[Len(result)] # "\\" /\ atom[1] # "\\"
           THEN Append(result, "\\") ELSE result) \o atom, LAMBDA result2 :
      IF need1 = <<>>
      THEN [state |-> "break", result |-> result2, cache |-> c, io |-> io]
      ELSE IF GetReparsePointType(result2, INVALID_HANDLE_VALUE) = IO_REPARSE_TAG_SYMLINK
      THEN Let(TryGetReparsePointTarget(c, result2, INVALID_HANDLE_VALUE, <<>>,
                                        policyResult, dev), LAMBDA r :
           Let(AddIo(io, r.io), LAMBDA io1 :
           IF ~r.status
           THEN [state |-> "false", result |-> result2, cache |-> r.cache, io |-> io1]
           ELSE IF GetRootLength(r.target) > 0
           THEN ResolvePrefixes_KeepsPrefix(r.cache, result2, processed1, SplitPathsReverse(r.target, need1),
                                policyResult, dev, io1, fuel - 1)
           ELSE Let(TryResolveRelativeTargetSimple(result2, r.target, processed1, need1,
                                                   TRUE), LAMBDA t :
                IF ~t.ok
                THEN [state |-> "false", result |-> t.result, cache |-> r.cache,
                      io |-> io1]
                ELSE ResolvePrefixes_KeepsPrefix(r.cache, t.result, t.processed, t.need,
                                     policyResult, dev, io1, fuel - 1))))
      ELSE ResolvePrefixes_KeepsPrefix(c, result2, processed1, need1, policyResult, dev, io,
                           fuel - 1)))))

\* the while loop of TryResolveRelativeTarget(path, relativeTarget, result,
\* policyResult); state "break" is the normal exit, "false" a `return false`,
\* "fuel" that the loop was still running after MaxAtoms atoms
RECURSIVE ResolvePrefixes(_, _, _, _, _, _, _, _)
ResolvePrefixes(c, result, processed, needToBeProcessed, policyResult, dev, io, fuel) ==
    IF needToBeProcessed = <<>>
    THEN [state |-> "break", result |-> result, cache |-> c, io |-> io]
    ELSE IF fuel = 0
    THEN [state |-> "fuel", result |-> result, cache |-> c, io |-> io]
    ELSE
      Let(needToBeProcessed[Len(needToBeProcessed)], LAMBDA atom :
      Let(SubSeq(needToBeProcessed, 1, Len(needToBeProcessed) - 1), LAMBDA need1 :
      Let(Append(processed, atom), LAMBDA processed1 :
      Let((IF result # <<>> /\ result[Len(result)] # "\\" /\ atom[1] # "\\"
           THEN Append(result, "\\") ELSE result) \o atom, LAMBDA result2 :
      IF need1 = <<>>
      THEN [state |-> "break", result |-> result2, cache |-> c, io |-> io]
      ELSE IF GetReparsePointType(result2, INVALID_HANDLE_VALUE) = IO_REPARSE_TAG_SYMLINK
      THEN Let(TryGetReparsePointTarget(c, result2, INVALID_HANDLE_VALUE, <<>>,
                                        policyResult, dev), LAMBDA r :
           Let(AddIo(io, r.io), LAMBDA io1 :
           IF ~r.status
           THEN [state |-> "false", result |-> result2, cache |-> r.cache, io |-> io1]
           ELSE IF GetRootLength(r.target) > 0
           THEN ResolvePrefixes(r.cache, <<>>, <<>>, SplitPathsReverse(r.target, need1),
                                policyResult, dev, io1, fuel - 1)
           ELSE Let(TryResolveRelativeTargetSimple(result2, r.target, processed1, need1,
                                                   TRUE), LAMBDA t :
                IF ~t.ok
                THEN [state |-> "false", result |-> t.result, cache |-> r.cache,
                      io |-> io1]
                ELSE ResolvePrefixes(r.cache, t.result, t.processed, t.need,
                                     policyResult, dev, io1, fuel - 1))))
      ELSE ResolvePrefixes(c, result2, processed1, need1, policyResult, dev, io,
                           fuel - 1)))))

\* TryResolveRelativeTarget that composes the relative target with the path
\* as it was given, no prefix being looked at
TryResolveRelativeTarget_PrefixesLeftInPlace(c, path, relativeTarget, result0, policyResult, dev) ==
    Let(TryResolveRelativeTargetSimple(path, relativeTarget, <<>>, <<>>, FALSE), LAMBDA t :
        [ok |-> t.ok, result |-> t.result, cache |-> c, io |-> NoIo, fuel |-> FALSE])

\* TryResolveRelativeTarget(path, relativeTarget, result, policyResult)
TryResolveRelativeTarget(c, path, relativeTarget, result0, policyResult, dev) ==
    Let(ResolvePrefixes(c, result0, <<>>, SplitPathsReverse(path, <<>>),
                        policyResult, dev, NoIo, MaxAtoms), LAMBDA l :
    IF l.state = "break"
    THEN Let(TryResolveRelativeTargetSimple(l.result, relativeTarget, <<>>, <<>>, FALSE),
             LAMBDA t :
             [ok |-> t.ok, result |-> t.result, cache |-> l.cache, io |-> l.io,
              fuel |-> FALSE])
    ELSE [ok |-> FALSE, result |-> l.result, cache |-> l.cache, io |-> l.io,
          fuel |-> l.state = "fuel"])

\* TryGetNextPath(path, hInput, result, policyResult)
TryGetNextPath(c, path, hInput, policyResult, dev) ==
    Let(TryGetReparsePointTarget(c, path, hInput, <<>>, policyResult, dev), LAMBDA r :
    IF ~r.status
    THEN [ok |-> FALSE, result |-> <<>>, cache |-> r.cache, io |-> r.io, fuel |-> FALSE]
    ELSE IF GetRootLength(r.target) > 0
    THEN [ok |-> TRUE, result |-> r.target, cache |-> r.cache, io |-> r.io, fuel |-> FALSE]
    ELSE Let(TryResolveRelativeTarget(r.cache, path, r.target, <<>>, policyResult, dev),
             LAMBDA t : [t EXCEPT !.io = AddIo(r.io, t.io)]))

(***************************************************************************)
(* Access checks.  A desired access and the flags of an open are sets of   *)
(* the names of the bits they hold.                                        *)
(***************************************************************************)
WantsWriteAccess(access) ==
    access \cap {"GENERIC_ALL", "GENERIC_WRITE", "DELETE", "FILE_WRITE_DATA",
                 "FILE_WRITE_ATTRIBUTES", "FILE_WRITE_EA", "FILE_APPEND_DATA"} # {}

WantsReadAccess(access) == access \cap {"GENERIC_READ", "FILE_READ_DATA"} # {}

WantsProbeOnlyAccess(access) ==
    /\ ~WantsReadAccess(access)
    /\ ~WantsWriteAccess(access)
    /\ (access = {} \/ access \cap {"FILE_READ_ATTRIBUTES", "FILE_READ_EA"} # {})

FlagsAndAttributesContainReparsePointFlag(dwFlagsAndAttributes) ==
    "FILE_FLAG_OPEN_REPARSE_POINT" \in dwFlagsAndAttributes

\* the global flag: a probed directory symlink counts as a directory
ProbeDirectorySymlinkAsDirectory == TRUE

\* the global flag: an unexpected access is denied rather than warned about
FailUnexpectedFileAccesses == TRUE

ShouldTreatDirectoryReparsePointAsFile(dwDesiredAccess, dwFlagsAndAttributes, policyResult) ==
    /\ ~IgnoreFullReparsePointResolvingForPath(policyResult)
    /\ (FlagsAndAttributesContainReparsePointFlag(dwFlagsAndAttributes)
        \/ WantsWriteAccess(dwDesiredAccess))
    /\ ~policyResult.untracked
    /\ (~WantsProbeOnlyAccess(dwDesiredAccess) \/ ~ProbeDirectorySymlinkAsDirectory)

IsDirectoryFromAttributes(node, treatReparsePointAsFile) ==
    node # NoObject /\ node.dir /\ (~treatReparsePointAsFile \/ node.tag = 0)

IsHandleOrPathToDirectory(hFile, lpFileName, treatReparsePointAsFile) ==
    IsDirectoryFromAttributes(
        IF hFile # INVALID_HANDLE_VALUE /\ hFile \in DOMAIN fs THEN fs[hFile]
        ELSE OsNode(fs, lpFileName),
        treatReparsePointAsFile)

AccessCheckResult(access, result, level, validity) ==
    [Access |-> access, Result |-> result, Level |-> level, Validity |-> validity]

ShouldReport(checkResult) == checkResult.Level \in {"Report", "ReportExplicit"}

ShouldDenyAccess(checkResult) == checkResult.Result = "Deny"

\* Combine that keeps the action, the level and the validity of left
Combine_LeftWins(left, right) ==
    AccessCheckResult(left.Access \cup right.Access, left.Result, left.Level, left.Validity)

\* AccessCheckResult::Combine: the most restrictive action, the highest
\* report level, the worst path validity
Combine(left, right) ==
    AccessCheckResult(
        left.Access \cup right.Access,
        IF right.Result = "Deny" THEN "Deny"
        ELSE IF right.Result = "Warn" /\ left.Result = "Allow" THEN "Warn"
        ELSE left.Result,
        IF right.Level = "ReportExplicit" THEN "ReportExplicit"
        ELSE IF right.Level = "Report" /\ left.Level = "Ignore" THEN "Report"
        ELSE left.Level,
        IF right.Validity = "Invalid" THEN "Invalid"
        ELSE IF right.Validity = "PathComponentNotFound" /\ left.Validity = "Valid"
             THEN "PathComponentNotFound"
        ELSE left.Validity)

\* PolicyResult::CheckReadAccess for a path that is not invalid
CheckReadAccess(policyResult, readAccessRequested, openedDirectory, exists) ==
    LET allowAccess == \/ openedDirectory
                       \/ ~policyResult.deny
                       \/ readAccessRequested = "EnumerationProbe"
        result == IF allowAccess THEN "Allow"
                  ELSE IF FailUnexpectedFileAccesses THEN "Deny" ELSE "Warn"
    IN  AccessCheckResult({readAccessRequested}, result, "Report", "Valid")

ERROR_FILE_NOT_FOUND == 2

ERROR_PATH_NOT_FOUND == 3

ERROR_INVALID_NAME == 123

\* the characters a file name may not hold
InvalidNameCharacters == {"?", "*", "<", ">", "|"}

\* the last error of a GetFileAttributesW(path) that failed: a directory on
\* the way to path is missing, the name is not one the file system can
\* parse, or only the leaf is missing
GetFileAttributesW_Error(path) ==
    LET comps  == Components(path, 1, <<>>)
        parent == IF Len(comps) > 1 THEN JoinComponents(SubSeq(comps, 1, Len(comps) - 1))
                  ELSE <<>>
    IN  IF Len(comps) > 2 /\ ~PathExists(fs, parent) THEN ERROR_PATH_NOT_FOUND
        ELSE IF \E i \in 1..Len(path) : path[i] \in InvalidNameCharacters
        THEN ERROR_INVALID_NAME
        ELSE ERROR_FILE_NOT_FOUND

\* ProbePathForValidity(canonicalizedPath)
ProbePathForValidity(canonicalizedPath) ==
    IF PathExists(fs, canonicalizedPath) THEN "Valid"
    ELSE Let(GetFileAttributesW_Error(canonicalizedPath), LAMBDA error :
         IF error = ERROR_PATH_NOT_FOUND THEN "PathComponentNotFound"
         ELSE IF error = ERROR_INVALID_NAME THEN "Invalid"
         ELSE "Valid")

\* PolicyResult::CreateAccessCheckResult(isAllowed): the path is probed for
\* validity only when the access is not allowed; a denial on an invalid
\* path is not reported
CreateAccessCheckResult(policyResult, isAllowed) ==
    Let(IF isAllowed THEN "Allow"
        ELSE IF FailUnexpectedFileAccesses THEN "Deny" ELSE "Warn", LAMBDA result :
    Let(IF result # "Allow" THEN ProbePathForValidity(policyResult.path) ELSE "Valid",
        LAMBDA pathValidity :
    AccessCheckResult({"Write"}, result,
                      IF pathValidity = "Invalid" THEN "Ignore" ELSE "Report",
                      pathValidity)))

\* PolicyResult::CheckWriteAccess
CheckWriteAccess(policyResult) == CreateAccessCheckResult(policyResult, ~policyResult.deny)

\* PolicyResult::CheckCreateDirectoryAccess
CheckCreateDirectoryAccess(policyResult) ==
    CreateAccessCheckResult(policyResult, ~policyResult.deny)

\* a denial that is always reported as access denied
DenialError_AlwaysAccessDenied(checkResult) == ERROR_ACCESS_DENIED

\* AccessCheckResult::DenialError
DenialError(checkResult) ==
    CASE checkResult.Validity = "Valid" -> ERROR_ACCESS_DENIED
      [] checkResult.Validity = "PathComponentNotFound" -> ERROR_PATH_NOT_FOUND
      [] checkResult.Validity = "Invalid" -> ERROR_INVALID_NAME

\* NTSTATUS is a signed 32-bit LONG: 0xC0000022, 0xC0000033, 0xC000003A
StatusAccessDenied == 0 - 1073741790

StatusObjectNameInvalid == 0 - 1073741773

StatusObjectPathNotFound == 0 - 1073741766

\* AccessCheckResult::DenialNtStatus
DenialNtStatus(checkResult) ==
    CASE checkResult.Validity = "Valid" -> StatusAccessDenied
      [] checkResult.Validity = "PathComponentNotFound" -> StatusObjectPathNotFound
      [] checkResult.Validity = "Invalid" -> StatusObjectNameInvalid

\* NTSTATUS* pNtStatus: no pointer, or the cell it points to
nullptr == <<>>

PointerTo(value) == <<value>>

\* the share mode of the open that reads a reparse point
FILE_SHARE_ALL == {"FILE_SHARE_READ", "FILE_SHARE_DELETE", "FILE_SHARE_WRITE"}

\* PolicyResult::ReportIndeterminatePolicyAndSetLastError(opContext): the
\* one report of a path whose policy cannot be determined
ReportIndeterminatePolicy(opContext, path) ==
    [Operation |-> opContext.Operation, Path |-> path,
     Status |-> "CannotDeterminePolicy", Denied |-> TRUE, OpenedDirectory |-> FALSE,
     RequestedAccess |-> {},
     DesiredAccess |-> opContext.DesiredAccess, ShareMode |-> opContext.ShareMode,
     CreationDisposition |-> opContext.CreationDisposition,
     FlagsAndAttributes |-> opContext.FlagsAndAttributes,
     Error |-> ERROR_SUCCESS]

\* EnforceReparsePointAccess called when the thread's last error is
\* lastError0: whether the access is allowed, the report sent (<<>> when none
\* is), the last error and the caller's status cell afterwards, the access
\* check made and the policy checks that were consulted for it
EnforceReparsePointAccess(lastError0, reparsePointPath, dwDesiredAccess, dwShareMode, dwCreationDisposition, dwFlagsAndAttributes, pNtStatus, enforceAccess, isCreateDirectory, isFullyResolvedPath, contextOperationName) ==
    LET \* the original context when the path is fully resolved, otherwise
        \* the context of the open that read the reparse point
        opContext ==
            [Operation |-> contextOperationName,
             DesiredAccess |-> IF isFullyResolvedPath THEN dwDesiredAccess
                               ELSE {"GENERIC_READ"},
             ShareMode |-> IF isFullyResolvedPath THEN dwShareMode ELSE FILE_SHARE_ALL,
             CreationDisposition |-> IF isFullyResolvedPath THEN dwCreationDisposition
                                     ELSE "OPEN_EXISTING",
             FlagsAndAttributes |-> IF isFullyResolvedPath THEN dwFlagsAndAttributes
                                    ELSE {"FILE_FLAG_OPEN_REPARSE_POINT",
                                          "FILE_FLAG_BACKUP_SEMANTICS"}]
        start == AccessCheckResult({}, "Allow", "Ignore", "Valid")
        wantsWrite == enforceAccess /\ WantsWriteAccess(opContext.DesiredAccess)
        wantsRead  == /\ enforceAccess
                      /\ (\/ WantsReadAccess(opContext.DesiredAccess)
                          \/ WantsProbeOnlyAccess(opContext.DesiredAccess))
    IN  Let(PolicyResult_Initialize(reparsePointPath), LAMBDA policyResult :
        IF policyResult.indeterminate
        THEN \* the report, then SetLastError(lastError); return false
             [ret |-> FALSE,
              report |-> <<ReportIndeterminatePolicy(opContext, reparsePointPath)>>,
              lastError |-> lastError0, ntStatus |-> pNtStatus, accessCheck |-> start,
              checks |-> {}]
        ELSE
        Let(IF ~wantsWrite THEN start
            ELSE IF isCreateDirectory THEN CheckCreateDirectoryAccess(policyResult)
            ELSE CheckWriteAccess(policyResult), LAMBDA write :
        Let(IsHandleOrPathToDirectory(
                INVALID_HANDLE_VALUE, reparsePointPath,
                ShouldTreatDirectoryReparsePointAsFile(
                    opContext.DesiredAccess, opContext.FlagsAndAttributes, policyResult)),
            LAMBDA opened :
        Let(IF wantsRead
            THEN Combine(write,
                         CheckReadAccess(policyResult,
                                         IF WantsProbeOnlyAccess(opContext.DesiredAccess)
                                         THEN "Probe" ELSE "Read",
                                         opened, PathExists(fs, reparsePointPath)))
            ELSE write, LAMBDA accessCheck :
        Let(enforceAccess /\ ShouldDenyAccess(accessCheck), LAMBDA denied :
        Let(IF denied THEN DenialError(accessCheck) ELSE lastError0, LAMBDA lastError :
        [ret       |-> ~denied,
         report    |-> IF ShouldReport(accessCheck)
                       THEN <<[Operation |-> opContext.Operation,
                               Path |-> reparsePointPath,
                               Denied |-> accessCheck.Result # "Allow",
                               OpenedDirectory |-> opened,
                               RequestedAccess |-> accessCheck.Access,
                               DesiredAccess |-> opContext.DesiredAccess,
                               ShareMode |-> opContext.ShareMode,
                               CreationDisposition |-> opContext.CreationDisposition,
                               FlagsAndAttributes |-> opContext.FlagsAndAttributes,
                               Error |-> lastError]>>
                       ELSE <<>>,
         lastError |-> lastError,
         ntStatus  |-> IF denied /\ pNtStatus # nullptr
                       THEN PointerTo(DenialNtStatus(accessCheck))
                       ELSE pNtStatus,
         accessCheck |-> accessCheck,
         checks    |-> (IF wantsWrite /\ isCreateDirectory
                        THEN {"CheckCreateDirectoryAccess"} ELSE {})
                       \cup (IF wantsWrite /\ ~isCreateDirectory
                             THEN {"CheckWriteAccess"} ELSE {})
                       \cup (IF wantsRead THEN {"CheckReadAccess"} ELSE {})]))))))

(***************************************************************************)
(* The chain walkers.  A chain is the pair of `order` (the paths in the    *)
(* order they were visited) and `resolvedPaths` (path -> type, a map       *)
(* ordered by CaseInsensitiveStringLessThan).                              *)
(***************************************************************************)
Intermediate == "Intermediate"

FullyResolved == "FullyResolved"

\* the path translation table of the manifest
g_pManifestTranslatePathLookupTable == {}

PathContainedInPathTranslations(path, canonicalize) ==
    /\ path # <<>>
    /\ Let(IF canonicalize THEN Canonicalize(path) ELSE path, LAMBDA p :
       Let(IF p # <<>> /\ p[Len(p)] = "\\" THEN SubSeq(p, 1, Len(p) - 1) ELSE p, LAMBDA q :
       [i \in 1..Len(q) |-> towupper(q[i])] \in g_pManifestTranslatePathLookupTable))

\* _wsplitpath_s and wcstok_s(directory, "\\/"): the drive, the tokens of the
\* directory part and the file name with its extension
SplitPath(input) ==
    LET drive == IF Len(input) >= 2 /\ input[2] = ":" THEN SubSeq(input, 1, 2) ELSE <<>>
        rest  == substrFrom(input, Len(drive))
        seps  == {i \in 1..Len(rest) : IsDirectorySeparator(rest[i])}
        lastSep == IF seps = {} THEN 0 ELSE CHOOSE i \in seps : \A j \in seps : j <= i
    IN  [drive  |-> drive,
         tokens |-> Components(SubSeq(rest, 1, lastSep), 1, <<>>),
         file   |-> SubSeq(rest, lastSep + 1, Len(rest))]

\* a walker that passes every hop on as fully resolved
EnforceHop_AsFullyResolved(w, lastError, pNtStatus, hop, isFullyResolvedPath, contextOperationName) ==
    EnforceReparsePointAccess(lastError, hop, w.access, w.share, w.disposition, w.attrs,
                              pNtStatus, w.enforceAccess, w.isCreateDirectory,
                              TRUE, contextOperationName)

\* EnforceReparsePointAccess called by a walker on one hop, with the arguments
\* the walker was called with; lastError and pNtStatus are what the thread
\* and the caller's status cell hold when the hop is reached
EnforceHop(w, lastError, pNtStatus, hop, isFullyResolvedPath, contextOperationName) ==
    EnforceReparsePointAccess(lastError, hop, w.access, w.share, w.disposition, w.attrs,
                              pNtStatus, w.enforceAccess, w.isCreateDirectory,
                              isFullyResolvedPath, contextOperationName)

\* a hop that is pushed and enforced but gets no type
FollowReparsePoint_Untyped(st, w, target, nameLength, c, io) ==
    Let(EnforceHop(w, st.lastError, st.ntStatus, st.resolved, FALSE, "ReparsePointTarget"),
        LAMBDA e :
    [st EXCEPT
       !.order    = Append(@, st.resolved),
       !.success  = @ /\ e.ret,
       !.reports  = @ \o e.report,
       !.lastError = e.lastError,
       !.ntStatus = e.ntStatus,
       !.resolved = IF GetRootLength(target) > 0 THEN target
                    ELSE substr(st.resolved, 0, Len(st.resolved) - nameLength) \o target,
       !.found    = TRUE,
       !.cache    = c,
       !.io       = io])

\* one hop of ResolveAllReparsePointsAndEnforceAccess: the reparse point at
\* st.resolved, whose target is `target`, is pushed, typed and enforced, and
\* is replaced by its target; nameLength is the length of the last name
FollowReparsePoint(st, w, target, nameLength, c, io) ==
    Let(EnforceHop(w, st.lastError, st.ntStatus, st.resolved, FALSE, "ReparsePointTarget"),
        LAMBDA e :
    [st EXCEPT
       !.order    = Append(@, st.resolved),
       !.map      = MapEmplace(@, st.resolved, Intermediate),
       !.success  = @ /\ e.ret,
       !.reports  = @ \o e.report,
       !.lastError = e.lastError,
       !.ntStatus = e.ntStatus,
       !.resolved = IF GetRootLength(target) > 0 THEN target
                    ELSE substr(st.resolved, 0, Len(st.resolved) - nameLength) \o target,
       !.found    = TRUE,
       !.cache    = c,
       !.io       = io])

\* the loop over the directory tokens of the input
RECURSIVE DirectoryTokens(_, _, _, _)
DirectoryTokens(st, tokens, w, dev) ==
    IF tokens = <<>> THEN st
    ELSE
      Let(Head(tokens), LAMBDA next :
      Let([st EXCEPT !.resolved = (@ \o <<"\\">>) \o next, !.level = @ + 1], LAMBDA st1 :
      DirectoryTokens(
          IF (~w.first \/ st1.level >= w.levelToEnforce) /\ ~st1.found
          THEN Let(TryGetReparsePointTarget(st1.cache, st1.resolved, INVALID_HANDLE_VALUE,
                                            <<>>, w.policy, dev), LAMBDA r :
               Let(AddIo(st1.io, r.io), LAMBDA io :
               Let(\/ PathContainedInPathTranslations(st1.resolved, FALSE)
                   \/ PathContainedInPathTranslations(r.target, TRUE),
                   LAMBDA isFilteredPath :
               IF r.status /\ ~isFilteredPath
               THEN FollowReparsePoint(st1, w, r.target, Len(next), r.cache, io)
               ELSE [st1 EXCEPT !.cache = r.cache, !.io = io])))
          ELSE st1,
          Tail(tokens), w, dev)))

\* One iteration of the `while (true)` of
\* ResolveAllReparsePointsAndEnforceAccess on walker state w and cache c:
\* the walker state afterwards (done when the loop was left), the cache, the
\* reports sent and the device I/O issued
ResolveAllIteration(c, w, dev) ==
    LET \* a reparse point was found: the loop goes round again
        Continue(st) ==
            [walk |-> [w EXCEPT !.input = PathCchCanonicalizeEx(st.resolved),
                                !.order = st.order, !.resolvedPaths = st.map,
                                !.success = st.success, !.level = st.level,
                                !.first = FALSE,
                                !.lastError = st.lastError, !.ntStatus = st.ntStatus],
             done |-> FALSE, cache |-> st.cache, reports |-> st.reports, io |-> st.io]
    IN  Let(SplitPath(w.input), LAMBDA split :
        Let(DirectoryTokens([resolved |-> split.drive, level |-> w.level, found |-> FALSE,
                             order |-> w.order, map |-> w.resolvedPaths,
                             success |-> w.success, reports |-> <<>>, cache |-> c,
                             io |-> NoIo,
                             lastError |-> w.lastError, ntStatus |-> w.ntStatus],
                            split.tokens, w, dev), LAMBDA st1 :
        Let(IF Len(split.file) > 0
            THEN [st1 EXCEPT !.resolved = (@ \o <<"\\">>) \o split.file]
            ELSE st1, LAMBDA st2 :
        IF st2.found THEN Continue(st2)
        ELSE
          Let(IF w.preserveLast
              THEN [status |-> FALSE, target |-> <<>>, cache |-> st2.cache, io |-> NoIo]
              ELSE TryGetReparsePointTarget(st2.cache, st2.resolved, INVALID_HANDLE_VALUE,
                                            <<>>, w.policy, dev), LAMBDA r :
          Let(~w.preserveLast
              /\ (\/ PathContainedInPathTranslations(st2.resolved, FALSE)
                  \/ PathContainedInPathTranslations(r.target, TRUE)),
              LAMBDA isFilteredPath :
          IF r.status /\ ~isFilteredPath
          THEN Continue(FollowReparsePoint(st2, w, r.target, Len(split.file), r.cache,
                                           AddIo(st2.io, r.io)))
          ELSE
            \* no reparse point was found: the input is the fully resolved path
            Let(PathCchCanonicalizeEx(st2.resolved), LAMBDA input :
            Let(IF w.enforceAccessForResolvedPath
                THEN EnforceHop(w, st2.lastError, st2.ntStatus, input, TRUE,
                                "ReparsePointTarget")
                ELSE [ret |-> TRUE, report |-> <<>>, lastError |-> st2.lastError,
                      ntStatus |-> st2.ntStatus], LAMBDA e :
            Let(Append(st2.order, input), LAMBDA order :
            Let(MapEmplace(st2.map, input, FullyResolved), LAMBDA map :
            [walk |-> [w EXCEPT !.input = input, !.order = order, !.resolvedPaths = map,
                                !.success = st2.success /\ e.ret, !.level = st2.level,
                                !.first = FALSE, !.resolvedPath = input,
                                !.lastError = e.lastError, !.ntStatus = e.ntStatus],
             done |-> TRUE,
             cache |-> PathCache_InsertResolvedPaths(r.cache, w.path, w.preserveLast,
                                                     order, map, w.policy),
             reports |-> st2.reports \o e.report,
             io |-> AddIo(st2.io, r.io)])))))))))

\* DetourGetFinalPaths that types every path as Intermediate
TypeOfCurrentPath_AlwaysIntermediate(nextPathResult) == Intermediate

\* the type DetourGetFinalPaths gives the current path: Intermediate when
\* there is a next path, FullyResolved when there is none
TypeOfCurrentPath(nextPathResult) ==
    IF nextPathResult THEN Intermediate ELSE FullyResolved

\* One iteration of the `while (true)` of DetourGetFinalPaths
DetourGetFinalPathsIteration(c, w, dev) ==
    Let(Append(w.order, w.input), LAMBDA order :
    Let(TryGetNextPath(c, w.input, w.handle, w.policy, dev), LAMBDA n :
    Let(MapEmplace(w.resolvedPaths, w.input, TypeOfCurrentPath(n.ok)),
        LAMBDA resolvedPaths :
    IF n.ok
    THEN Let(Canonicalize(n.result), LAMBDA currentPath :
         Let(SeqContains(order, currentPath), LAMBDA cycle :
         [walk |-> [w EXCEPT !.order = order,
                             !.resolvedPaths = resolvedPaths,
                             !.input = currentPath,
                             !.handle = INVALID_HANDLE_VALUE,
                             !.cycle = cycle],
          done |-> cycle,
          cache |-> n.cache, reports |-> <<>>, io |-> n.io]))
    ELSE [walk |-> [w EXCEPT !.order = order,
                             !.resolvedPaths = resolvedPaths,
                             !.handle = INVALID_HANDLE_VALUE],
          done |-> TRUE, cache |-> n.cache, reports |-> <<>>, io |-> n.io])))

(***************************************************************************)
(* Chain enforcement run to completion, as the detours use it.             *)
(***************************************************************************)
AccessReparsePointTarget(lpFileName, dwFlagsAndAttributes, hFile) ==
    /\ ~FlagsAndAttributesContainReparsePointFlag(dwFlagsAndAttributes)
    /\ IsReparsePoint(lpFileName, hFile)

\* TryDecomposePath: the atoms of a path, drive first
TryDecomposePath(path) == Components(path, 1, <<>>)

\* the loop of ShouldResolveReparsePointsInPath over the atoms, and the final
\* query on the whole path
RECURSIVE ShouldResolveLoop(_, _, _, _, _, _, _, _)
ShouldResolveLoop(c, atoms, resolver, level, levelToEnforce, policyResult, dev, io) ==
    Let(IF atoms = <<>> THEN SubSeq(resolver, 1, Len(resolver) - 1)
        ELSE resolver \o Head(atoms), LAMBDA full :
    Let(IF level >= levelToEnforce
        THEN TryGetReparsePointTarget(c, full, INVALID_HANDLE_VALUE, <<>>, policyResult, dev)
        ELSE [status |-> FALSE, target |-> <<>>, cache |-> c, io |-> NoIo], LAMBDA r :
    IF r.status \/ atoms = <<>>
    THEN [ret |-> r.status, cache |-> r.cache, io |-> AddIo(io, r.io)]
    ELSE ShouldResolveLoop(r.cache, Tail(atoms), Append(full, "\\"), level + 1,
                           levelToEnforce, policyResult, dev, AddIo(io, r.io))))

ShouldResolveReparsePointsInPath(c, path, dwFlagsAndAttributes, policyResult, dev) ==
    LET Answer(b) == [ret |-> b, cache |-> c, io |-> NoIo]
    IN  IF IgnoreReparsePoints THEN Answer(FALSE)
        ELSE IF IgnoreFullReparsePointResolvingForPath(policyResult)
        THEN [ret |-> AccessReparsePointTarget(path, dwFlagsAndAttributes, INVALID_HANDLE_VALUE),
              cache |-> c, io |-> [NoIo EXCEPT !.attr = 1]]
        ELSE IF policyResult.untracked THEN Answer(FALSE)
        ELSE Let(PathCache_GetResolvingCheckResult(c, path, policyResult), LAMBDA result :
                 IF result.Found THEN Answer(result.Value)
                 ELSE ShouldResolveLoop(c, TryDecomposePath(path), <<>>, 0,
                                        GetLevelToEnableFullReparsePointParsing(policyResult),
                                        policyResult, dev, NoIo))

\* a walker that enforces full parsing from level 0 whatever the policy
NewWalk_FromLevelZero(fn, path, hInput, dwDesiredAccess, dwShareMode, dwCreationDisposition, dwFlagsAndAttributes, policyResult, pNtStatus, enforceAccess, isCreateDirectory, enforceAccessForResolvedPath, preserveLast) ==
    [pc |-> fn, fn |-> fn, path |-> path, input |-> path, handle |-> hInput,
     access |-> dwDesiredAccess, share |-> dwShareMode,
     disposition |-> dwCreationDisposition, attrs |-> dwFlagsAndAttributes,
     policy |-> policyResult, ntStatus |-> pNtStatus,
     enforceAccess |-> enforceAccess, isCreateDirectory |-> isCreateDirectory,
     enforceAccessForResolvedPath |-> enforceAccessForResolvedPath,
     preserveLast |-> preserveLast,
     order |-> <<>>, resolvedPaths |-> {}, first |-> TRUE, level |-> 0,
     levelToEnforce |-> 0,
     success |-> TRUE, resolvedPath |-> <<>>, cycle |-> FALSE,
     steps |-> 0, seen |-> {}, cached |-> FALSE, deviceOk |-> TRUE,
     lastError |-> ERROR_SUCCESS]

\* the walker state at the entry of a walk of `path`
NewWalk(fn, path, hInput, dwDesiredAccess, dwShareMode, dwCreationDisposition, dwFlagsAndAttributes, policyResult, pNtStatus, enforceAccess, isCreateDirectory, enforceAccessForResolvedPath, preserveLast) ==
    [pc |-> fn, fn |-> fn, path |-> path, input |-> path, handle |-> hInput,
     access |-> dwDesiredAccess, share |-> dwShareMode,
     disposition |-> dwCreationDisposition, attrs |-> dwFlagsAndAttributes,
     policy |-> policyResult, ntStatus |-> pNtStatus,
     enforceAccess |-> enforceAccess, isCreateDirectory |-> isCreateDirectory,
     enforceAccessForResolvedPath |-> enforceAccessForResolvedPath,
     preserveLast |-> preserveLast,
     order |-> <<>>, resolvedPaths |-> {}, first |-> TRUE, level |-> 0,
     levelToEnforce |-> GetLevelToEnableFullReparsePointParsing(policyResult),
     success |-> TRUE, resolvedPath |-> <<>>, cycle |-> FALSE,
     steps |-> 0, seen |-> {}, cached |-> FALSE, deviceOk |-> TRUE,
     lastError |-> ERROR_SUCCESS]

\* the `for` loop of EnforceChainOfReparsePointAccesses that stops at the
\* first hop that is denied
RECURSIVE EnforceOrder_ShortCircuit(_, _, _, _, _)
EnforceOrder_ShortCircuit(w, i, success, resolvedPath, sent) ==
    IF i > Len(w.order) \/ ~success
    THEN [success |-> success, resolvedPath |-> resolvedPath, reports |-> sent,
          lastError |-> w.lastError, ntStatus |-> w.ntStatus]
    ELSE
      Let(w.order[i], LAMBDA key :
      Let(MapAt(w.resolvedPaths, key), LAMBDA type :
      Let(~IgnoreFullReparsePointResolvingForPath(w.policy) /\ type = FullyResolved,
          LAMBDA full :
      IF full /\ ~w.enforceAccessForResolvedPath
      THEN EnforceOrder_ShortCircuit(w, i + 1, success, key, sent)
      ELSE Let(EnforceHop(w, w.lastError, w.ntStatus, key, type = FullyResolved,
                          IF w.cached THEN "ReparsePointTargetCached"
                          ELSE "ReparsePointTarget"),
               LAMBDA e :
               EnforceOrder_ShortCircuit([w EXCEPT !.lastError = e.lastError, !.ntStatus = e.ntStatus],
                            i + 1, success /\ e.ret,
                            IF full THEN key ELSE resolvedPath, sent \o e.report)))))

\* the `for` loop of EnforceChainOfReparsePointAccesses that runs over the
\* chain from its end
RECURSIVE EnforceOrder_FromTheEnd(_, _, _, _, _)
EnforceOrder_FromTheEnd(w, i, success, resolvedPath, sent) ==
    IF i > Len(w.order)
    THEN [success |-> success, resolvedPath |-> resolvedPath, reports |-> sent,
          lastError |-> w.lastError, ntStatus |-> w.ntStatus]
    ELSE
      Let(w.order[Len(w.order) + 1 - i], LAMBDA key :
      Let(MapAt(w.resolvedPaths, key), LAMBDA type :
      Let(~IgnoreFullReparsePointResolvingForPath(w.policy) /\ type = FullyResolved,
          LAMBDA full :
      IF full /\ ~w.enforceAccessForResolvedPath
      THEN EnforceOrder_FromTheEnd(w, i + 1, success, key, sent)
      ELSE Let(EnforceHop(w, w.lastError, w.ntStatus, key, type = FullyResolved,
                          IF w.cached THEN "ReparsePointTargetCached"
                          ELSE "ReparsePointTarget"),
               LAMBDA e :
               EnforceOrder_FromTheEnd([w EXCEPT !.lastError = e.lastError, !.ntStatus = e.ntStatus],
                            i + 1, success /\ e.ret,
                            IF full THEN key ELSE resolvedPath, sent \o e.report)))))

\* the `for` loop of EnforceChainOfReparsePointAccesses over a chain that was
\* read from the cache or built by DetourGetFinalPaths
RECURSIVE EnforceOrder(_, _, _, _, _)
EnforceOrder(w, i, success, resolvedPath, sent) ==
    IF i > Len(w.order)
    THEN [success |-> success, resolvedPath |-> resolvedPath, reports |-> sent,
          lastError |-> w.lastError, ntStatus |-> w.ntStatus]
    ELSE
      Let(w.order[i], LAMBDA key :
      Let(MapAt(w.resolvedPaths, key), LAMBDA type :
      Let(~IgnoreFullReparsePointResolvingForPath(w.policy) /\ type = FullyResolved,
          LAMBDA full :
      IF full /\ ~w.enforceAccessForResolvedPath
      THEN EnforceOrder(w, i + 1, success, key, sent)
      ELSE Let(EnforceHop(w, w.lastError, w.ntStatus, key, type = FullyResolved,
                          IF w.cached THEN "ReparsePointTargetCached"
                          ELSE "ReparsePointTarget"),
               LAMBDA e :
               EnforceOrder([w EXCEPT !.lastError = e.lastError, !.ntStatus = e.ntStatus],
                            i + 1, success /\ e.ret,
                            IF full THEN key ELSE resolvedPath, sent \o e.report)))))

\* a walk run until it returns or has made `fuel` iterations
RECURSIVE RunWalk(_, _, _, _, _, _)
RunWalk(c, w, dev, sent, io, fuel) ==
    IF fuel = 0
    THEN [walk |-> w, returned |-> FALSE, cache |-> c, reports |-> sent, io |-> io]
    ELSE
      Let(IF w.pc = "ResolveAll" THEN ResolveAllIteration(c, w, dev)
          ELSE DetourGetFinalPathsIteration(c, w, dev), LAMBDA it :
      Let([it.walk EXCEPT !.steps = @ + 1], LAMBDA w1 :
      IF ~it.done
      THEN RunWalk(it.cache, w1, dev, sent \o it.reports, AddIo(io, it.io), fuel - 1)
      ELSE IF w.pc = "ResolveAll"
      THEN [walk |-> w1, returned |-> TRUE, cache |-> it.cache,
            reports |-> sent \o it.reports, io |-> AddIo(io, it.io)]
      ELSE Let(EnforceOrder(w1, 1, TRUE, <<>>, <<>>), LAMBDA e :
               [walk |-> [w1 EXCEPT !.success = e.success, !.resolvedPath = e.resolvedPath,
                                    !.lastError = e.lastError, !.ntStatus = e.ntStatus],
                returned |-> TRUE, cache |-> it.cache,
                reports |-> sent \o e.reports, io |-> AddIo(io, it.io)])))

\* EnforceChainOfReparsePointAccesses up to the walk it starts: either the
\* call is over (IgnoreReparsePoints, or the chain was cached and replayed),
\* or a walker is entered
EnterEnforceChain(c, path, hInput, dwDesiredAccess, dwShareMode, dwCreationDisposition, dwFlagsAndAttributes, policyResult, pNtStatus, enforceAccess, isCreateDirectory, enforceAccessForResolvedPath, preserveLast) ==
    LET w(fn) == NewWalk(fn, path, hInput, dwDesiredAccess, dwShareMode,
                         dwCreationDisposition, dwFlagsAndAttributes, policyResult,
                         pNtStatus, enforceAccess, isCreateDirectory,
                         enforceAccessForResolvedPath, preserveLast)
    IN  IF IgnoreReparsePoints
        THEN [walk |-> w("done"), returned |-> TRUE, reports |-> <<>>]
        ELSE
          Let(PathCache_GetResolvedPaths(c, path, preserveLast, policyResult),
              LAMBDA cachedEntries :
          IF cachedEntries.Found
          THEN Let([w("done") EXCEPT !.order = cachedEntries.Value.first,
                                     !.resolvedPaths = cachedEntries.Value.second,
                                     !.cached = TRUE], LAMBDA wc :
               Let(EnforceOrder(wc, 1, TRUE, <<>>, <<>>), LAMBDA e :
               [walk |-> [wc EXCEPT !.success = e.success, !.resolvedPath = e.resolvedPath,
                                    !.lastError = e.lastError, !.ntStatus = e.ntStatus],
                returned |-> TRUE, reports |-> e.reports]))
          ELSE IF IgnoreFullReparsePointResolvingForPath(policyResult)
          THEN [walk |-> w("DetourGetFinalPaths"), returned |-> FALSE, reports |-> <<>>]
          ELSE [walk |-> w("ResolveAll"), returned |-> FALSE, reports |-> <<>>])

EnforceChainOfReparsePointAccesses(c, path, hInput, dwDesiredAccess, dwShareMode, dwCreationDisposition, dwFlagsAndAttributes, policyResult, pNtStatus, enforceAccess, isCreateDirectory, enforceAccessForResolvedPath, preserveLast, dev) ==
    Let(EnterEnforceChain(c, path, hInput, dwDesiredAccess, dwShareMode,
                          dwCreationDisposition, dwFlagsAndAttributes, policyResult,
                          pNtStatus, enforceAccess, isCreateDirectory,
                          enforceAccessForResolvedPath, preserveLast), LAMBDA en :
    IF en.returned
    THEN [walk |-> en.walk, returned |-> TRUE, cache |-> c, reports |-> en.reports,
          io |-> NoIo]
    ELSE RunWalk(c, en.walk, dev, <<>>, NoIo, MaxChain))

\* an AdjustPath that leaves the context on the path of the operation
AdjustPath_KeepsPath(opContextPath, fullyResolvedPath) == opContextPath

\* FileOperationContext::AdjustPath: the context names the new path
AdjustPath(opContextPath, fullyResolvedPath) == fullyResolvedPath

\* AdjustOperationContextAndPolicyResultWithFullyResolvedPath on the path
\* of policyResult: whether the detour may go on, the policy it goes on
\* with, the path of the operation context (the path of policyResult on
\* entry), the cache, whether the call returned at all, whether
\* ShouldResolveReparsePointsInPath answered true and the value of the local
\* variable accessResult
AdjustOperationContextAndPolicyResultWithFullyResolvedPath(c, dwDesiredAccess, dwFlagsAndAttributes, policyResult, preserveLastReparsePoint, dev) ==
    LET path == policyResult.path
        same == [ret |-> TRUE, returned |-> TRUE, policy |-> policyResult,
                 opContextPath |-> path, cache |-> c, reports |-> <<>>, io |-> NoIo,
                 shouldResolve |-> FALSE, accessResult |-> TRUE]
        \* the context of the operation, as far as this function is given it
        opContext == [Operation |-> "opContext", DesiredAccess |-> dwDesiredAccess,
                      ShareMode |-> FILE_SHARE_ALL, CreationDisposition |-> "OPEN_EXISTING",
                      FlagsAndAttributes |-> dwFlagsAndAttributes]
        reparsePointDeletion ==
            /\ FlagsAndAttributesContainReparsePointFlag(dwFlagsAndAttributes)
            /\ ("DELETE" \in dwDesiredAccess
                \/ "FILE_FLAG_DELETE_ON_CLOSE" \in dwFlagsAndAttributes)
    IN  IF IgnoreReparsePoints \/ IgnoreFullReparsePointResolvingForPath(policyResult)
        THEN same
        ELSE
          Let(ShouldResolveReparsePointsInPath(c, path, dwFlagsAndAttributes, policyResult,
                                               dev), LAMBDA sr :
          IF ~sr.ret
          THEN [same EXCEPT !.cache = sr.cache, !.io = sr.io]
          ELSE
            \* the share mode and the creation disposition of the operation
            \* only reach the fully resolved path, which is not enforced here
            Let(EnforceChainOfReparsePointAccesses(
                    sr.cache, path, INVALID_HANDLE_VALUE, dwDesiredAccess,
                    FILE_SHARE_ALL, "OPEN_EXISTING", dwFlagsAndAttributes, policyResult,
                    nullptr, TRUE, FALSE, FALSE, preserveLastReparsePoint, dev),
                LAMBDA en :
            Let(AddIo(sr.io, en.io), LAMBDA io :
            IF ~en.returned
            THEN [ret |-> FALSE, returned |-> FALSE, policy |-> policyResult,
                  opContextPath |-> path,
                  cache |-> en.cache, reports |-> en.reports, io |-> io,
                  shouldResolve |-> TRUE, accessResult |-> FALSE]
            ELSE
            Let(IF reparsePointDeletion
                THEN PathCache_Invalidate(en.cache, path, TRUE, policyResult)
                ELSE en.cache, LAMBDA invalidated :
            IF ~en.walk.success
            THEN [ret |-> FALSE, returned |-> TRUE, policy |-> policyResult,
                  opContextPath |-> path,
                  cache |-> invalidated, reports |-> en.reports, io |-> io,
                  shouldResolve |-> TRUE, accessResult |-> FALSE]
            ELSE
            \* opContext.AdjustPath(fullyResolvedPath), then the policy of
            \* the fully resolved path
            Let(PolicyResult_Initialize(en.walk.resolvedPath), LAMBDA newPolicyResult :
            IF newPolicyResult.indeterminate
            THEN [ret |-> FALSE, returned |-> TRUE, policy |-> policyResult,
                  opContextPath |-> AdjustPath(path, en.walk.resolvedPath), cache |-> invalidated,
                  reports |-> Append(en.reports,
                                     ReportIndeterminatePolicy(opContext,
                                                               en.walk.resolvedPath)),
                  io |-> io, shouldResolve |-> TRUE, accessResult |-> TRUE]
            ELSE [ret |-> TRUE, returned |-> TRUE, policy |-> newPolicyResult,
                  opContextPath |-> AdjustPath(path, en.walk.resolvedPath), cache |-> invalidated,
                  reports |-> en.reports, io |-> io,
                  shouldResolve |-> TRUE, accessResult |-> TRUE])))))

(***************************************************************************)
(* The real file system calls behind the detours.                          *)
(***************************************************************************)
\* some object lies below the directory named by key
HasChildren(files, key) ==
    \E k \in DOMAIN files : k # key /\ IsPathPrefix(key, k)

Remove(files, key) == [k \in DOMAIN files \ {key} |-> files[k]]

\* Real_DeleteFileW: removes the file or file symlink that the path names
Real_DeleteFileW(files, lpFileName) ==
    LET key == OsObject(files, lpFileName)
    IN  IF key \in DOMAIN files /\ ~files[key].dir
        THEN [result |-> TRUE, fs |-> Remove(files, key)]
        ELSE [result |-> FALSE, fs |-> files]

\* Real_RemoveDirectoryW: removes an empty directory or a directory link
Real_RemoveDirectoryW(files, lpPathName) ==
    LET key == OsObject(files, lpPathName)
    IN  IF key \in DOMAIN files /\ files[key].dir
           /\ (files[key].tag # 0 \/ ~HasChildren(files, key))
        THEN [result |-> TRUE, fs |-> Remove(files, key)]
        ELSE [result |-> FALSE, fs |-> files]

\* the parent of path is a directory that is reached through no reparse point
ParentIsPlainDirectory(files, path) ==
    LET comps  == Components(path, 1, <<>>)
        parent == JoinComponents(SubSeq(comps, 1, Len(comps) - 1))
    IN  /\ Len(comps) >= 2
        /\ OsNode(files, parent).dir
        /\ OsNode(files, parent).tag = 0
        /\ (Len(comps) = 2 \/ OsObject(files, parent) = FsKey(parent))

\* Real_MoveFileWithProgressW and the rename of
\* Real_SetFileInformationByHandle, for a file or a link: the object moves
\* to the new name when nothing is there yet
Real_MoveFile(files, lpExistingFileName, lpNewFileName) ==
    LET key == OsObject(files, lpExistingFileName)
        new == OsObject(files, lpNewFileName)
    IN  IF key \in DOMAIN files /\ ~files[key].dir /\ new = <<>>
           /\ ParentIsPlainDirectory(files, lpNewFileName)
        THEN [result |-> TRUE,
              fs |-> (FsKey(lpNewFileName) :> files[key]) @@ Remove(files, key)]
        ELSE [result |-> FALSE, fs |-> files]

\* Real_CreateSymbolicLinkW: creates the link when nothing has its name
Real_CreateSymbolicLinkW(files, lpSymlinkFileName, lpTargetFileName, isDir) ==
    IF OsObject(files, lpSymlinkFileName) = <<>>
       /\ ParentIsPlainDirectory(files, lpSymlinkFileName)
    THEN [result |-> TRUE,
          fs |-> (FsKey(lpSymlinkFileName) :> SymlinkTo(lpTargetFileName, isDir)) @@ files]
    ELSE [result |-> FALSE, fs |-> files]

(***************************************************************************)
(* The paths and the file system the sandboxed process starts with.        *)
(***************************************************************************)
Root(name) == <<"C", ":", "\\">> \o name

PathA == Root(<<"A">>)

PathB == Root(<<"B">>)

PathT == Root(<<"T">>)

PathP == Root(<<"P">>)

PathQ == Root(<<"Q">>)

PathD == Root(<<"D">>)

PathE == Root(<<"E">>)

PathN == Root(<<"N">>)

PathO == Root(<<"O">>)

PathL == Root(<<"L">>)

Below(dir, name) == (dir \o <<"\\">>) \o name

\* C:\A -> C:\B -> C:\T is a chain of file links that ends at the file C:\T;
\* C:\L -> "T" is a link with a relative target; C:\P and C:\Q link to each
\* other; C:\D is a directory link to the directory C:\E, which holds the
\* file Y, the link X -> C:\D\Y and the link O -> C:\A; C:\N is a reparse
\* point that is neither a symlink nor a mount point; nothing is named C:\O
InitialFs ==
    (FsKey(PathA) :> SymlinkTo(PathB, FALSE)) @@
    (FsKey(PathB) :> SymlinkTo(PathT, FALSE)) @@
    (FsKey(PathT) :> File) @@
    (FsKey(PathL) :> SymlinkTo(<<"T">>, FALSE)) @@
    (FsKey(PathP) :> SymlinkTo(PathQ, FALSE)) @@
    (FsKey(PathQ) :> SymlinkTo(PathP, FALSE)) @@
    (FsKey(PathD) :> SymlinkTo(PathE, TRUE)) @@
    (FsKey(PathE) :> Dir) @@
    (FsKey(Below(PathE, <<"Y">>)) :> File) @@
    (FsKey(Below(PathE, <<"X">>)) :> SymlinkTo(Below(PathD, <<"Y">>), FALSE)) @@
    (FsKey(Below(PathE, <<"O">>)) :> SymlinkTo(PathA, FALSE)) @@
    (FsKey(PathN) :> AppLink)

\* The configurations of the process: the two global flags and the scopes of
\* the manifest with full reparse point parsing.  The scopes only matter
\* when full resolving is ignored globally.
Flags(ignoreReparsePoints, ignoreFullReparsePointResolving) ==
    [IgnoreReparsePoints |-> ignoreReparsePoints,
     IgnoreFullReparsePointResolving |-> ignoreFullReparsePointResolving]

Scopes(full) == [full |-> full, deny |-> {}, indeterminate |-> {}]

Configurations ==
    {<<Flags(TRUE, FALSE), Scopes({})>>,
     <<Flags(FALSE, FALSE), Scopes({})>>,
     <<Flags(FALSE, TRUE), Scopes({})>>,
     <<Flags(FALSE, TRUE), Scopes({PathE})>>}

(***************************************************************************)
(* What the model remembers about calls (history variables).               *)
(***************************************************************************)
\* no event is remembered for a path
NoEvent == [kind |-> "none", status |-> FALSE, target |-> <<>>, bypass |-> FALSE]

ReadEvent(status, target, bypass) ==
    [kind |-> "read", status |-> status, target |-> target, bypass |-> bypass]

InvalidateEvent == [kind |-> "invalidated", status |-> FALSE, target |-> <<>>, bypass |-> FALSE]

EventOf(m, path) == IF CacheKey(path) \in DOMAIN m THEN m[CacheKey(path)] ELSE NoEvent

\* the events that survive a change of the file system at the paths in
\* `changed`, and the invalidations that were the last thing the call did
\* to the cache for the paths in `invalidated`
Forget(m, changed, invalidated) ==
    LET keep == {k \in DOMAIN m : \A p \in changed \cup invalidated : ~IsPathPrefix(p, k)}
    IN  [k \in keep \cup {CacheKey(p) : p \in invalidated} |->
            IF \E p \in invalidated : CacheKey(p) = k THEN InvalidateEvent ELSE m[k]]

IdleWalk == NewWalk("idle", <<>>, INVALID_HANDLE_VALUE, {}, {}, "OPEN_EXISTING", {},
                    [path |-> <<>>, enableFull |-> FALSE, untracked |-> FALSE, deny |-> FALSE,
                     indeterminate |-> FALSE],
                    nullptr, TRUE, FALSE, TRUE, FALSE)

NoCall == [op |-> "none", path |-> <<>>, dest |-> <<>>, owner |-> <<>>,
           status |-> FALSE, target |-> <<>>, io |-> NoIo, bypass |-> FALSE,
           prev |-> NoEvent, fresh |-> NoEvent, returned |-> TRUE, before |-> EmptyCache]

\* the cache holds no memo of any kind for path
NoMemoFor(c, path) ==
    /\ CacheKey(path) \notin DOMAIN c.check
    /\ CacheKey(path) \notin DOMAIN c.target
    /\ \A k \in DOMAIN c.chains : k[1] # CacheKey(path)

(***************************************************************************)
(* Operations of the sandboxed process on the reader and the cache.        *)
(***************************************************************************)
\* the paths the process reads reparse points of, and the paths on whose
\* behalf (with whose policy) it does so: the path itself, or C:\E\O, the
\* link through which a walk reaches C:\A
ReadPaths == {PathA, PathN, PathT, PathO}

Owners(path) == {path} \cup (IF path = PathA THEN {Below(PathE, <<"O">>)} ELSE {})

\* how the device behaves during a detour
DetourDevices == {DeviceOk}

Bypassed(policyResult) ==
    IgnoreReparsePoints \/ IgnoreFullReparsePointResolvingForPath(policyResult)

\* the report of the operation itself, sent by ReportIfNeeded
OperationReport(name, accessCheck, policyResult) ==
    IF ShouldReport(accessCheck)
    THEN <<[Operation |-> name, Path |-> policyResult.path,
            Denied |-> accessCheck.Result # "Allow", OpenedDirectory |-> FALSE]>>
    ELSE <<>>

\* TryGetReparsePointTarget(path, INVALID_HANDLE_VALUE, target, policy of owner)
Call_TryGetReparsePointTarget(path, owner, dev) ==
    /\ ops < MaxOps
    /\ Let(PolicyResult_Initialize(owner), LAMBDA policyResult :
       Let(TryGetReparsePointTarget(cache, path, INVALID_HANDLE_VALUE, <<>>, policyResult, dev),
           LAMBDA r :
       \* what a reader with an empty cache answers
       Let(TryGetReparsePointTarget(EmptyCache, path, INVALID_HANDLE_VALUE, <<>>,
                                    policyResult, dev), LAMBDA f :
       Let(EventOf(memo, path), LAMBDA prev :
       /\ ops' = ops + 1
       /\ cache' = r.cache
       /\ last' = [NoCall EXCEPT !.op = "TryGetReparsePointTarget", !.path = path,
                                 !.owner = owner, !.status = r.status, !.target = r.target,
                                 !.io = r.io, !.bypass = Bypassed(policyResult),
                                 !.prev = prev,
                                 !.fresh = IF prev.kind = "invalidated"
                                           THEN ReadEvent(f.status, f.target, FALSE)
                                           ELSE NoEvent]
       /\ memo' = (CacheKey(path) :> ReadEvent(r.status, r.target, Bypassed(policyResult)))
                  @@ memo
       /\ reports' = <<>>
       /\ UNCHANGED <<fs, flags, manifest, walk>>))))

\* what a detour leaves behind: the cache, the file system, the reports, the
\* record of the call, and the events remembered (none for a path in
\* `changed`, the one of an invalidation for a path in `invalidated`)
Detour(name, path, dest, c, files, sent, result, returned, changed, invalidated) ==
    /\ ops < MaxOps
    /\ ops' = ops + 1
    /\ cache' = c
    /\ fs' = files
    /\ reports' = sent
    /\ last' = [NoCall EXCEPT !.op = name, !.path = path, !.dest = dest, !.status = result,
                              !.returned = returned]
    /\ memo' = Forget(memo, changed, invalidated)
    /\ UNCHANGED <<flags, manifest, walk>>

Detoured_DeleteFileW(lpFileName, dev) ==
    LET access == {"DELETE"}
        attrs  == {"FILE_FLAG_DELETE_ON_CLOSE", "FILE_FLAG_OPEN_REPARSE_POINT"}
    IN  /\ ops < MaxOps
        /\ Let(PolicyResult_Initialize(lpFileName), LAMBDA policyResult :
           Let(PathCache_Invalidate(cache, policyResult.path, FALSE, policyResult), LAMBDA c1 :
           Let(AdjustOperationContextAndPolicyResultWithFullyResolvedPath(
                   c1, access, attrs, policyResult, TRUE, dev), LAMBDA adj :
           Let(CheckWriteAccess(adj.policy), LAMBDA accessCheck :
           Let(Real_DeleteFileW(fs, lpFileName), LAMBDA real :
           Let(adj.reports \o OperationReport("DeleteFile", accessCheck, adj.policy),
               LAMBDA sent :
           \* PathCache_Invalidate was the last call on the cache for the path
           \* unless ShouldResolveReparsePointsInPath queried it afterwards
           Let(IF Bypassed(policyResult) \/ NoMemoFor(adj.cache, lpFileName)
               THEN {lpFileName} ELSE {}, LAMBDA invalidated :
           IF ~adj.ret
           THEN Detour("DeleteFile", lpFileName, <<>>, adj.cache, fs, adj.reports, FALSE,
                       adj.returned, {lpFileName}, {})
           ELSE IF ShouldDenyAccess(accessCheck)
           THEN Detour("DeleteFile", lpFileName, <<>>, adj.cache, fs, sent,
                       FALSE, TRUE, {lpFileName}, {})
           ELSE Detour("DeleteFile", lpFileName, <<>>, adj.cache, real.fs, sent,
                       real.result, TRUE, {lpFileName}, invalidated))))))))

\* for a source that is not a directory
Detoured_MoveFileWithProgressW(lpExistingFileName, lpNewFileName, copyAllowed, dev) ==
    LET attrs == {"FILE_ATTRIBUTE_NORMAL"}
        Return(c, sent, returned) ==
            Detour("MoveFileWithProgress", lpExistingFileName, lpNewFileName, c, fs, sent,
                   FALSE, returned, {lpExistingFileName, lpNewFileName}, {})
    IN  /\ ops < MaxOps
        /\ Let(IsHandleOrPathToDirectory(INVALID_HANDLE_VALUE, lpExistingFileName, TRUE),
               LAMBDA moveDirectory :
           Let(PolicyResult_Initialize(lpExistingFileName), LAMBDA sourcePolicyResult :
           Let(PathCache_Invalidate(cache, sourcePolicyResult.path, moveDirectory,
                                    sourcePolicyResult), LAMBDA c1 :
           Let(AdjustOperationContextAndPolicyResultWithFullyResolvedPath(
                   c1, {"GENERIC_READ", "DELETE"}, attrs, sourcePolicyResult,
                   ~moveDirectory, dev), LAMBDA src :
           Let(PolicyResult_Initialize(lpNewFileName), LAMBDA destPolicyResult :
           Let(AdjustOperationContextAndPolicyResultWithFullyResolvedPath(
                   src.cache, {"GENERIC_WRITE"}, attrs, destPolicyResult, ~moveDirectory, dev),
               LAMBDA dst :
           Let(CheckWriteAccess(src.policy), LAMBDA sourceAccessCheck :
           Let(CheckWriteAccess(dst.policy), LAMBDA destAccessCheck :
           Let(IF copyAllowed
               THEN Combine(sourceAccessCheck, CheckReadAccess(src.policy, "Read", FALSE, TRUE))
               ELSE sourceAccessCheck, LAMBDA sourceAccessCheck2 :
           Let(Real_MoveFile(fs, lpExistingFileName, lpNewFileName), LAMBDA real :
           Let(src.reports \o dst.reports, LAMBDA sent :
           /\ ~moveDirectory
           /\ IF ~src.ret THEN Return(src.cache, src.reports, src.returned)
              ELSE IF ~dst.ret THEN Return(dst.cache, sent, dst.returned)
              ELSE IF ShouldDenyAccess(sourceAccessCheck)
              THEN Return(dst.cache,
                          sent \o OperationReport("MoveFileWithProgress_Source",
                                                  sourceAccessCheck, src.policy), TRUE)
              ELSE IF ShouldDenyAccess(destAccessCheck)
              THEN Return(dst.cache,
                          sent \o OperationReport("MoveFileWithProgress_Dest", destAccessCheck,
                                                  dst.policy), TRUE)
              ELSE IF ShouldDenyAccess(sourceAccessCheck2)
              THEN Return(dst.cache,
                          sent \o OperationReport("MoveFileWithProgress_Source",
                                                  sourceAccessCheck2, src.policy), TRUE)
              ELSE Detour("MoveFileWithProgress", lpExistingFileName, lpNewFileName,
                          dst.cache, real.fs,
                          (sent \o OperationReport("MoveFileWithProgress_Source",
                                                   sourceAccessCheck2, src.policy))
                          \o OperationReport("MoveFileWithProgress_Dest", destAccessCheck,
                                             dst.policy),
                          real.result, TRUE, {lpExistingFileName, lpNewFileName},
                          IF Bypassed(sourcePolicyResult)
                             \/ NoMemoFor(dst.cache, lpExistingFileName)
                          THEN {lpExistingFileName} ELSE {}))))))))))))

Detoured_CreateSymbolicLinkW(lpSymlinkFileName, lpTargetFileName, isDirectory, dev) ==
    /\ ops < MaxOps
    /\ Let(PolicyResult_Initialize(lpSymlinkFileName), LAMBDA policyResultSrc :
       Let(PathCache_Invalidate(cache, policyResultSrc.path, FALSE, policyResultSrc),
           LAMBDA c1 :
       Let(AdjustOperationContextAndPolicyResultWithFullyResolvedPath(
               c1, {"GENERIC_WRITE"}, {"FILE_ATTRIBUTE_NORMAL"}, policyResultSrc, TRUE, dev),
           LAMBDA adj :
       Let(Combine(CheckWriteAccess(adj.policy), CheckWriteAccess(adj.policy)),
           LAMBDA accessCheckSrc :
       Let(Real_CreateSymbolicLinkW(fs, lpSymlinkFileName, lpTargetFileName, isDirectory),
           LAMBDA real :
       Let(adj.reports \o OperationReport("CreateSymbolicLink_Source", accessCheckSrc,
                                          adj.policy), LAMBDA sent :
       IF IgnoreReparsePoints
       THEN Detour("CreateSymbolicLink", lpSymlinkFileName, <<>>, cache, real.fs, <<>>,
                   real.result, TRUE, {lpSymlinkFileName}, {})
       ELSE IF ~adj.ret
       THEN Detour("CreateSymbolicLink", lpSymlinkFileName, <<>>, adj.cache, fs, adj.reports,
                   FALSE, adj.returned, {lpSymlinkFileName}, {})
       ELSE IF ShouldDenyAccess(accessCheckSrc)
       THEN Detour("CreateSymbolicLink", lpSymlinkFileName, <<>>, adj.cache, fs, sent,
                   FALSE, TRUE, {lpSymlinkFileName}, {})
       ELSE Detour("CreateSymbolicLink", lpSymlinkFileName, <<>>,
                   PathCache_Invalidate(adj.cache, adj.policy.path, FALSE, adj.policy),
                   real.fs, sent, real.result, TRUE, {lpSymlinkFileName},
                   {adj.policy.path})))))))

\* for a directory that holds nothing (ValidateMoveDirectory has no entry
\* to check)
Detoured_RemoveDirectoryW(lpPathName, dev) ==
    /\ ops < MaxOps
    /\ Let(OsObject(fs, lpPathName), LAMBDA object :
       Let(PolicyResult_Initialize(lpPathName), LAMBDA policyResult :
       Let(AdjustOperationContextAndPolicyResultWithFullyResolvedPath(
               cache, {"DELETE"}, {"FILE_ATTRIBUTE_DIRECTORY"}, policyResult, TRUE, dev),
           LAMBDA adj :
       Let(CheckWriteAccess(adj.policy), LAMBDA accessCheck :
       Let(Real_RemoveDirectoryW(fs, lpPathName), LAMBDA real :
       Let(adj.reports \o OperationReport("RemoveDirectory", accessCheck, adj.policy),
           LAMBDA sent :
       /\ object \in DOMAIN fs
       /\ ~HasChildren(fs, object)
       /\ IF ~adj.ret
          THEN Detour("RemoveDirectory", lpPathName, <<>>, adj.cache, fs, adj.reports,
                      FALSE, adj.returned, {lpPathName}, {})
          ELSE IF ShouldDenyAccess(accessCheck)
          THEN Detour("RemoveDirectory", lpPathName, <<>>, adj.cache, fs, sent,
                      FALSE, TRUE, {lpPathName}, {})
          ELSE Detour("RemoveDirectory", lpPathName, <<>>,
                      PathCache_Invalidate(adj.cache, adj.policy.path, TRUE, adj.policy),
                      real.fs, sent, real.result, TRUE, {lpPathName}, {adj.policy.path})))))))

\* Detoured_SetFileInformationByHandle with FileRenameInfo on a handle of
\* fullPath, for a file or a link
RenameUsingSetFileInformationByHandle(fullPath, targetFileName) ==
    /\ ops < MaxOps
    /\ Let(PolicyResult_Initialize(fullPath), LAMBDA sourcePolicyResult :
       Let(PolicyResult_Initialize(targetFileName), LAMBDA destPolicyResult :
       Let(CheckWriteAccess(sourcePolicyResult), LAMBDA sourceAccessCheck :
       Let(CheckWriteAccess(destPolicyResult), LAMBDA destAccessCheck :
       Let(Real_MoveFile(fs, fullPath, targetFileName), LAMBDA real :
       Let(OperationReport("SetFileInformationByHandle_Source", sourceAccessCheck,
                           sourcePolicyResult), LAMBDA src :
       Let(OperationReport("SetFileInformationByHandle_Dest", destAccessCheck,
                           destPolicyResult), LAMBDA dst :
       /\ ~IsHandleOrPathToDirectory(INVALID_HANDLE_VALUE, fullPath, TRUE)
       /\ IF ShouldDenyAccess(sourceAccessCheck)
          THEN Detour("SetFileInformationByHandle_Rename", fullPath, targetFileName, cache,
                      fs, src, FALSE, TRUE, {fullPath, targetFileName}, {})
          ELSE IF ShouldDenyAccess(destAccessCheck)
          THEN Detour("SetFileInformationByHandle_Rename", fullPath, targetFileName, cache,
                      fs, dst, FALSE, TRUE, {fullPath, targetFileName}, {})
          ELSE Detour("SetFileInformationByHandle_Rename", fullPath, targetFileName, cache,
                      real.fs, src \o dst, real.result, TRUE, {fullPath, targetFileName},
                      {}))))))))

\* Detoured_SetFileInformationByHandle with FileDispositionInfo on a handle
\* of fullPath
DeleteUsingSetFileInformationByHandle(fullPath) ==
    /\ ops < MaxOps
    /\ Let(PolicyResult_Initialize(fullPath), LAMBDA sourcePolicyResult :
       Let(CheckWriteAccess(sourcePolicyResult), LAMBDA sourceAccessCheck :
       Let(Real_DeleteFileW(fs, fullPath), LAMBDA real :
       Let(OperationReport("SetFileInformationByHandle_Source", sourceAccessCheck,
                           sourcePolicyResult), LAMBDA sent :
       IF ShouldDenyAccess(sourceAccessCheck)
       THEN Detour("SetFileInformationByHandle_Delete", fullPath, <<>>, cache, fs, sent,
                   FALSE, TRUE, {fullPath}, {})
       ELSE Detour("SetFileInformationByHandle_Delete", fullPath, <<>>, cache, real.fs, sent,
                   real.result, TRUE, {fullPath}, {})))))

(***************************************************************************)
(* The sandboxed process as a reader of reparse points and a caller of the *)
(* detours that change them.                                               *)
(***************************************************************************)
\* the paths the detours are called on
ChangePaths == {PathA, PathT, PathO}

Init ==
    /\ fs = InitialFs
    /\ cache = EmptyCache
    /\ \E configuration \in Configurations :
          flags = configuration[1] /\ manifest = configuration[2]
    /\ walk = IdleWalk
    /\ reports = <<>>
    /\ last = NoCall
    /\ memo = <<>>
    /\ ops = 0

Next ==
    \/ \E path \in ReadPaths : \E owner \in Owners(path) : \E dev \in DeviceOutcomes :
          Call_TryGetReparsePointTarget(path, owner, dev)
    \/ \E path \in ChangePaths : \E dev \in DetourDevices : Detoured_DeleteFileW(path, dev)
    \/ \E dev \in DetourDevices : \E copyAllowed \in BOOLEAN :
          Detoured_MoveFileWithProgressW(PathA, PathO, copyAllowed, dev)
    \/ \E dev \in DetourDevices : Detoured_CreateSymbolicLinkW(PathO, PathT, FALSE, dev)
    \/ \E dev \in DetourDevices : Detoured_RemoveDirectoryW(PathD, dev)
    \/ RenameUsingSetFileInformationByHandle(PathA, PathO)
    \/ \E path \in ChangePaths : DeleteUsingSetFileInformationByHandle(path)

Spec == Init /\ [][Next]_vars

(***************************************************************************)
(* Properties of the reader and the cache.                                 *)
(***************************************************************************)
IsRead == last.op = "TryGetReparsePointTarget"

\* the last call was a read of a path whose previous event is a read, with
\* no invalidation and no change of the path in between
IsRepeatedRead == IsRead /\ last.prev.kind = "read"

(* C1: with the cache not bypassed, when a read of the target of an        *)
(* actionable reparse point P returned the target and P was neither        *)
(* changed nor invalidated since, the next read of P returns the same      *)
(* target and issues no device I/O at all: no attribute query, no handle   *)
(* open, no DeviceIoControl.                                               *)
C1_RepeatedReadAnswersFromMemo ==
    (IsRepeatedRead /\ ~last.bypass /\ ~last.prev.bypass /\ last.prev.status)
    => (last.status /\ last.target = last.prev.target /\ last.io = NoIo)

C1_Witness ==
    /\ IsRepeatedRead /\ ~last.bypass /\ ~last.prev.bypass /\ last.prev.status
    /\ last.path = PathA /\ last.status /\ last.target = PathB /\ last.io = NoIo

(* C2 as stated: once a read of P returned no target, every later read of  *)
(* P before an invalidation of P returns no target and issues no           *)
(* DeviceIoControl.                                                        *)
C2_NegativeReadIsMemoized ==
    (IsRepeatedRead /\ ~last.prev.status)
    => (~last.status /\ last.io.ioctl = 0)

(* C2 amended: with the cache bypassed on neither call, once a read of P   *)
(* returned no target, the next read of P before an invalidation or change *)
(* of P returns no target and issues no DeviceIoControl.                   *)
C2_NegativeReadIsMemoizedUnlessBypassed ==
    (IsRepeatedRead /\ ~last.prev.status /\ ~last.bypass /\ ~last.prev.bypass)
    => (~last.status /\ last.io.ioctl = 0)

\* a reparse point that is not actionable is read twice through the cache
C2_Witness ==
    /\ IsRepeatedRead /\ ~last.prev.status /\ ~last.bypass /\ ~last.prev.bypass
    /\ last.path = PathN /\ ~last.status /\ last.io.ioctl = 0 /\ last.io.open = 0

(* C3: for every path P, the first read of P after PathCache_Invalidate(P) *)
(* was called issues device I/O again and returns what the file system     *)
(* holds at that moment.                                                   *)
C3_ReadAfterInvalidateIsFresh ==
    (IsRead /\ last.prev.kind = "invalidated")
    => (/\ last.io.attr > 0
        /\ last.status = last.fresh.status
        /\ last.target = last.fresh.target)

MutatingDetours ==
    {"DeleteFile", "RemoveDirectory", "CreateSymbolicLink", "MoveFileWithProgress",
     "SetFileInformationByHandle_Rename", "SetFileInformationByHandle_Delete"}

(* C4: when a detoured delete, remove-directory, symlink creation, move or *)
(* rename/delete by handle has returned after changing the file system at  *)
(* P (for a move or rename: at the source and at the destination), the     *)
(* cache holds no memo for P: any it held was computed before the change.  *)
C4_NoMemoSurvivesMutation ==
    (last.op \in MutatingDetours /\ last.returned /\ last.status)
    => (/\ NoMemoFor(cache, last.path)
        /\ last.dest # <<>> => NoMemoFor(cache, last.dest))

(***************************************************************************)
(* The gates in front of the cache, called one at a time.                  *)
(***************************************************************************)
GatePaths == {PathA, PathN}

\* the policies the gates are called with: the one of C:\A, and the one of
\* C:\E\O, which lies in the scope of the manifest when there is one
GateOwners == {PathA, Below(PathE, <<"O">>)}

\* the chains handed to PathCache_InsertResolvedPaths
GateChains ==
    {[first  |-> <<PathA, PathB>>,
      second |-> {[key |-> PathA, val |-> Intermediate],
                  [key |-> PathB, val |-> FullyResolved]}]}

Gate(name, path, owner, found, c) ==
    /\ ops < MaxOps
    /\ ops' = ops + 1
    /\ cache' = c
    /\ last' = [NoCall EXCEPT !.op = name, !.path = path, !.owner = owner,
                              !.status = found,
                              !.bypass = Bypassed(PolicyResult_Initialize(owner)),
                              !.before = cache]
    /\ UNCHANGED <<fs, flags, manifest, walk, reports, memo>>

Call_PathCache_Invalidate(path, owner) ==
    Gate("PathCache_Invalidate", path, owner, FALSE,
         PathCache_Invalidate(cache, path, FALSE, PolicyResult_Initialize(owner)))

Call_PathCache_GetResolvedPathAndType(path, owner) ==
    Gate("PathCache_GetResolvedPathAndType", path, owner,
         PathCache_GetResolvedPathAndType(cache, path, PolicyResult_Initialize(owner)).Found,
         cache)

Call_PathCache_InsertResolvedPathWithType(path, resolved, reparsePointType, owner) ==
    Gate("PathCache_InsertResolvedPathWithType", path, owner, FALSE,
         PathCache_InsertResolvedPathWithType(cache, path, resolved, reparsePointType,
                                              PolicyResult_Initialize(owner)))

Call_PathCache_GetResolvingCheckResult(path, owner) ==
    Gate("PathCache_GetResolvingCheckResult", path, owner,
         PathCache_GetResolvingCheckResult(cache, path, PolicyResult_Initialize(owner)).Found,
         cache)

Call_PathCache_InsertResolvingCheckResult(path, result, owner) ==
    Gate("PathCache_InsertResolvingCheckResult", path, owner, FALSE,
         PathCache_InsertResolvingCheckResult(cache, path, result,
                                              PolicyResult_Initialize(owner)))

Call_PathCache_InsertResolvedPaths(path, preserveLast, chain, owner) ==
    Gate("PathCache_InsertResolvedPaths", path, owner, FALSE,
         PathCache_InsertResolvedPaths(cache, path, preserveLast, chain.first, chain.second,
                                       PolicyResult_Initialize(owner)))

Call_PathCache_GetResolvedPaths(path, preserveLast, owner) ==
    Gate("PathCache_GetResolvedPaths", path, owner,
         PathCache_GetResolvedPaths(cache, path, preserveLast,
                                    PolicyResult_Initialize(owner)).Found,
         cache)

NextGate ==
    \E path \in GatePaths : \E owner \in GateOwners :
       \/ Call_PathCache_Invalidate(path, owner)
       \/ Call_PathCache_GetResolvedPathAndType(path, owner)
       \/ \E reparsePointType \in {0, IO_REPARSE_TAG_SYMLINK} :
             Call_PathCache_InsertResolvedPathWithType(
                 path, IF reparsePointType = 0 THEN <<>> ELSE PathB, reparsePointType, owner)
       \/ Call_PathCache_GetResolvingCheckResult(path, owner)
       \/ \E result \in BOOLEAN : Call_PathCache_InsertResolvingCheckResult(path, result, owner)
       \/ \E chain \in GateChains : \E preserveLast \in BOOLEAN :
             Call_PathCache_InsertResolvedPaths(path, preserveLast, chain, owner)
       \/ \E preserveLast \in BOOLEAN : Call_PathCache_GetResolvedPaths(path, preserveLast, owner)

SpecGate == Init /\ [][NextGate]_vars

GateNames ==
    {"PathCache_Invalidate", "PathCache_GetResolvedPathAndType",
     "PathCache_InsertResolvedPathWithType", "PathCache_GetResolvingCheckResult",
     "PathCache_InsertResolvingCheckResult", "PathCache_InsertResolvedPaths",
     "PathCache_GetResolvedPaths"}

(* C5: when reparse point handling is disabled globally, or the policy     *)
(* the call is made with opts out of full reparse point parsing, every     *)
(* PathCache_* operation is a no-op: a lookup finds nothing, an insert     *)
(* stores nothing, Invalidate removes nothing, and the cache is the same   *)
(* after the call as before.                                               *)
C5_BypassedGateIsNoOp ==
    (last.op \in GateNames /\ last.bypass)
    => (~last.status /\ cache = last.before)

\* a bypassed gate was called for a path the cache holds a memo for
C5_Witness ==
    /\ last.op \in {"PathCache_Invalidate", "PathCache_GetResolvedPathAndType"}
    /\ last.bypass
    /\ CacheKey(last.path) \in DOMAIN cache.target
    /\ ~last.status
    /\ cache = last.before

(***************************************************************************)
(* The chain walkers, one loop iteration at a time.                        *)
(***************************************************************************)
WalkPaths == {PathA, PathP, Below(PathD, <<"X">>)}

\* the device answered every query of the iteration
DeviceAnswers(dev) == dev.open /\ dev.replies[Len(dev.replies)] = ERROR_SUCCESS

\* EnforceChainOfReparsePointAccesses(path, INVALID_HANDLE_VALUE, GENERIC_READ,
\* ...) is called: it returns at once, replays a cached chain, or enters a
\* walker
Call_EnforceChainOfReparsePointAccesses(path, preserveLast) ==
    /\ walk.pc \in {"idle", "done"}
    /\ ops < MaxOps
    /\ Let(EnterEnforceChain(cache, Canonicalize(path), INVALID_HANDLE_VALUE,
                             {"GENERIC_READ"}, FILE_SHARE_ALL, "OPEN_EXISTING",
                             {"FILE_ATTRIBUTE_NORMAL"}, PolicyResult_Initialize(path),
                             nullptr, TRUE, FALSE, TRUE, preserveLast),
           LAMBDA en :
       /\ ops' = ops + 1
       /\ walk' = IF en.returned THEN [en.walk EXCEPT !.pc = "done"] ELSE en.walk
       /\ reports' = en.reports
       /\ last' = [NoCall EXCEPT !.op = "EnforceChainOfReparsePointAccesses",
                                 !.path = path, !.returned = en.returned]
       /\ UNCHANGED <<fs, cache, flags, manifest, memo>>)

\* one iteration of DetourGetFinalPaths; when the loop is left the chain is
\* enforced and the call returns
DetourGetFinalPathsStep(dev) ==
    /\ walk.pc = "DetourGetFinalPaths"
    /\ Len(walk.order) < MaxChain
    /\ Let(DetourGetFinalPathsIteration(cache, walk, dev), LAMBDA it :
       Let([it.walk EXCEPT !.steps = @ + 1, !.deviceOk = @ /\ DeviceAnswers(dev)],
           LAMBDA w1 :
       \* the `for` loop over the chain
       Let(EnforceOrder(w1, 1, TRUE, <<>>, <<>>), LAMBDA e :
       /\ cache' = it.cache
       /\ walk' = IF it.done
                  THEN [w1 EXCEPT !.pc = "done", !.success = e.success,
                                  !.resolvedPath = e.resolvedPath,
                                  !.lastError = e.lastError, !.ntStatus = e.ntStatus]
                  ELSE w1
       /\ reports' = IF it.done THEN e.reports ELSE reports
       /\ last' = [last EXCEPT !.returned = it.done, !.io = it.io]
       /\ UNCHANGED <<fs, flags, manifest, memo, ops>>)))

\* one iteration of ResolveAllReparsePointsAndEnforceAccess.  `seen` holds
\* the configurations the loop was in since it last issued device I/O: from
\* there on it has read the cache only.
ResolveAllStep(dev) ==
    /\ walk.pc = "ResolveAll"
    /\ Len(walk.order) < MaxChain
    /\ Let(ResolveAllIteration(cache, walk, dev), LAMBDA it :
       Let([it.walk EXCEPT !.steps = @ + 1,
                           !.deviceOk = @ /\ DeviceAnswers(dev),
                           !.seen = IF it.io = NoIo
                                    THEN @ \cup {<<walk.input, walk.first>>}
                                    ELSE {}], LAMBDA w1 :
       /\ cache' = it.cache
       /\ walk' = IF it.done THEN [w1 EXCEPT !.pc = "done"] ELSE w1
       /\ reports' = reports \o it.reports
       /\ last' = [last EXCEPT !.returned = it.done, !.io = it.io]
       /\ UNCHANGED <<fs, flags, manifest, memo, ops>>))

NextWalk ==
    \/ \E path \in WalkPaths : \E preserveLast \in BOOLEAN :
          Call_EnforceChainOfReparsePointAccesses(path, preserveLast)
    \/ \E dev \in DeviceOutcomes : DetourGetFinalPathsStep(dev)
    \/ \E dev \in DeviceOutcomes : ResolveAllStep(dev)

SpecWalk == Init /\ [][NextWalk]_vars

(***************************************************************************)
(* Properties of the chains.                                               *)
(***************************************************************************)
\* a call of EnforceChainOfReparsePointAccesses has returned with a chain
\* built by the walker fn (or replayed from the cache)
Emitted(fn) == walk.pc = "done" /\ walk.fn = fn /\ walk.order # <<>>

HasType(path, type) ==
    \E e \in walk.resolvedPaths : SameKey(e.key, path) /\ e.val = type

\* every entry of the chain but the last is Intermediate, the last one is
\* FullyResolved
WellTyped ==
    /\ \A i \in 1..(Len(walk.order) - 1) : HasType(walk.order[i], "Intermediate")
    /\ HasType(walk.order[Len(walk.order)], "FullyResolved")

AllIntermediate ==
    \A i \in 1..Len(walk.order) : HasType(walk.order[i], "Intermediate")

C6_WitnessDetourGetFinalPaths ==
    /\ Emitted("DetourGetFinalPaths") /\ walk.path = PathA /\ walk.deviceOk
    /\ walk.order = <<PathA, PathB, PathT>>

Distinct(order) ==
    \A i, j \in 1..Len(order) : i # j => order[i] # order[j]

DistinctIgnoringCase(order) ==
    \A i, j \in 1..Len(order) : i # j => CacheKey(order[i]) # CacheKey(order[j])

EveryEntryIsTyped ==
    \A i \in 1..Len(walk.order) :
       \E e \in walk.resolvedPaths : SameKey(e.key, walk.order[i])

\* how often path was enforced as a hop of the chain
Enforcements(path) ==
    Cardinality({i \in 1..Len(reports) : CacheKey(reports[i].Path) = CacheKey(path)})

C9_CycleEndsDetourGetFinalPaths ==
    (walk.fn = "DetourGetFinalPaths" /\ walk.pc # "idle" /\ walk.path = PathP)
    => (/\ walk.steps <= Len(walk.order) + 1
        /\ walk.steps <= 2
        /\ Distinct(walk.order)
        /\ (walk.pc = "done" /\ walk.cycle)
           => (/\ walk.order = <<PathP, PathQ>>
               /\ walk.input = PathP
               /\ Cardinality(walk.resolvedPaths) = 2
               /\ AllIntermediate))

C9_Witness ==
    /\ Emitted("DetourGetFinalPaths") /\ walk.path = PathP /\ walk.cycle
    /\ walk.steps = 2 /\ walk.order = <<PathP, PathQ>> /\ walk.input = PathP

(* C10: on the cycle C:\P -> C:\Q -> C:\P with full resolving enabled      *)
(* ResolveAllReparsePointsAndEnforceAccess returns: it never starts an     *)
(* iteration on an input it has already started one on since it last       *)
(* issued device I/O (from such an input the loop, which then reads only   *)
(* the cache, would repeat forever and the chain would grow without        *)
(* bound).                                                                 *)
C10_ResolveAllLeavesTheCycle ==
    (walk.pc = "ResolveAll" /\ walk.path = PathP)
    => <<walk.input, walk.first>> \notin walk.seen

(***************************************************************************)
(* The layout of the documentation of TryResolveRelativeTarget:            *)
(*                                                                         *)
(*    repo                          C:\P                                   *)
(*    +---intermediate              C:\P\N                                 *)
(*    |   \---current               C:\P\N\C                               *)
(*    |         symlink1.link         A ==> ..\..\T\X                      *)
(*    |         symlink2.link         B ==> ..\T\Y                         *)
(*    +---source                    C:\P\D ==> N\C                         *)
(*    \---target                    C:\P\T                                 *)
(*          file1.txt                 X                                    *)
(*          file2.txt                 Y                                    *)
(*                                                                         *)
(* source is a directory symlink (case 1) or a junction (case 2); its      *)
(* target is written relative, as in the documentation, or rooted.         *)
(***************************************************************************)
Repo == Root(<<"P">>)

RepoIntermediate == Below(Repo, <<"N">>)

RepoCurrent == Below(RepoIntermediate, <<"C">>)

RepoSource == Below(Repo, <<"D">>)

RepoTarget == Below(Repo, <<"T">>)

Symlink1 == <<"A">>

Symlink2 == <<"B">>

File1 == <<"X">>

File2 == <<"Y">>

DirectorySymlinkTo(target) == SymlinkTo(target, TRUE)

RepoLayout(source) ==
    (FsKey(Repo) :> Dir) @@
    (FsKey(RepoIntermediate) :> Dir) @@
    (FsKey(RepoCurrent) :> Dir) @@
    (FsKey(Below(RepoCurrent, Symlink1)) :>
        SymlinkTo(<<".", ".", "\\", ".", ".", "\\", "T", "\\">> \o File1, FALSE)) @@
    (FsKey(Below(RepoCurrent, Symlink2)) :>
        SymlinkTo(<<".", ".", "\\", "T", "\\">> \o File2, FALSE)) @@
    (FsKey(RepoSource) :> source) @@
    (FsKey(RepoTarget) :> Dir) @@
    (FsKey(Below(RepoTarget, File1)) :> File) @@
    (FsKey(Below(RepoTarget, File2)) :> File)

\* intermediate\current, and the same directory written from the root
RepoSourceTargets == {<<"N", "\\", "C">>, RepoCurrent}

RepoLayouts ==
    {RepoLayout(DirectorySymlinkTo(target)) : target \in RepoSourceTargets}
    \cup {RepoLayout(JunctionTo(target)) : target \in RepoSourceTargets}

\* the paths the tool accesses
RepoPaths ==
    {Below(RepoSource, Symlink1), Below(RepoSource, Symlink2), Below(RepoTarget, File1)}

\* how the device behaves while the tool accesses the layout
RepoDevices == {DeviceOk, DeviceQueryFails}

\* the handle the caller holds on path, when it passes one
HandleOn(path) == OsObject(fs, path)

\* TryGetNextPath(path, hInput, result, policy of path)
Call_TryGetNextPath(path, withHandle, dev) ==
    /\ ops < MaxOps
    /\ walk.pc \in {"idle", "done"}
    /\ Let(PolicyResult_Initialize(path), LAMBDA policyResult :
       Let(IF withHandle THEN HandleOn(path) ELSE INVALID_HANDLE_VALUE, LAMBDA hInput :
       Let(TryGetNextPath(cache, path, hInput, policyResult, dev), LAMBDA r :
       /\ ops' = ops + 1
       /\ cache' = r.cache
       /\ last' = [NoCall EXCEPT !.op = "TryGetNextPath", !.path = path,
                                 !.owner = hInput, !.status = r.ok, !.target = r.result,
                                 !.io = r.io, !.bypass = Bypassed(policyResult),
                                 !.returned = ~r.fuel]
       /\ reports' = <<>>
       /\ UNCHANGED <<fs, flags, manifest, walk, memo>>)))

InitRepo ==
    /\ fs \in RepoLayouts
    /\ cache = EmptyCache
    /\ \E configuration \in Configurations :
          flags = configuration[1] /\ manifest = configuration[2]
    /\ walk = IdleWalk
    /\ reports = <<>>
    /\ last = NoCall
    /\ memo = <<>>
    /\ ops = 0

NextRepo ==
    \/ \E path \in RepoPaths : \E withHandle \in BOOLEAN : \E dev \in RepoDevices :
          Call_TryGetNextPath(path, withHandle, dev)
    \/ \E path \in RepoPaths : \E preserveLast \in BOOLEAN :
          Call_EnforceChainOfReparsePointAccesses(path, preserveLast)
    \/ DetourGetFinalPathsStep(DeviceOk)
    \/ ResolveAllStep(DeviceOk)

SpecRepo == InitRepo /\ [][NextRepo]_vars

\* source is a directory symlink, a junction
SourceIsDirectorySymlink == fs[FsKey(RepoSource)].tag = IO_REPARSE_TAG_SYMLINK

SourceIsJunction == fs[FsKey(RepoSource)].tag = IO_REPARSE_TAG_MOUNT_POINT

\* TryGetNextPath has returned for path
NextPathOf(path) == last.op = "TryGetNextPath" /\ last.path = path /\ last.returned

(* C11: with source a directory symlink to intermediate\current, the next  *)
(* path of repo\source\symlink1.link is exactly repo\target\file1.txt      *)
(* whenever TryGetNextPath finds its target; the next path of              *)
(* repo\source\symlink2.link is repo\intermediate\target\file2.txt,        *)
(* because the prefix repo\source is replaced by repo\intermediate\current *)
(* before the relative target is composed.                                 *)
C11_DirectorySymlinkPrefixIsResolved ==
    SourceIsDirectorySymlink
    => /\ (NextPathOf(Below(RepoSource, Symlink1)) /\ last.status)
          => last.target = Below(RepoTarget, File1)
       /\ (NextPathOf(Below(RepoSource, Symlink2)) /\ last.status)
          => last.target = Below(Below(RepoIntermediate, <<"T">>), File2)

C11_Witness ==
    /\ SourceIsDirectorySymlink
    /\ fs[FsKey(RepoSource)].printName = <<"N", "\\", "C">>
    /\ NextPathOf(Below(RepoSource, Symlink1))
    /\ last.status
    /\ last.target = Below(RepoTarget, File1)

\* a walker has returned from a walk of path during which the device
\* answered every query
Resolved(path) ==
    /\ walk.pc = "done"
    /\ walk.fn \in {"DetourGetFinalPaths", "ResolveAll"}
    /\ walk.path = Canonicalize(path)
    /\ walk.deviceOk
    /\ ~walk.cycle

\* the path the walk ended on
FinalPath == walk.order[Len(walk.order)]

(* C12: with source a junction to intermediate\current, resolving          *)
(* repo\source\symlink2.link yields exactly repo\target\file2.txt: the     *)
(* junction prefix repo\source is left in place, never replaced by its     *)
(* target, before the relative target ..\target\file2.txt is composed.     *)
(* This holds of TryGetNextPath and of both walkers.                       *)
C12_JunctionPrefixIsLeftInPlace ==
    SourceIsJunction
    => /\ (NextPathOf(Below(RepoSource, Symlink2)) /\ last.status)
          => last.target = Below(RepoTarget, File2)
       /\ (Resolved(Below(RepoSource, Symlink2)) /\ ~walk.preserveLast)
          => /\ FinalPath = Below(RepoTarget, File2)
             /\ ~SeqContains(walk.order, RepoCurrent)

\* the part of C12 that holds: TryGetNextPath and DetourGetFinalPaths
C12_JunctionPrefixIsLeftInPlaceByTryGetNextPath ==
    SourceIsJunction
    => /\ (NextPathOf(Below(RepoSource, Symlink2)) /\ last.status)
          => last.target = Below(RepoTarget, File2)
       /\ (Resolved(Below(RepoSource, Symlink2)) /\ ~walk.preserveLast
              /\ walk.fn = "DetourGetFinalPaths")
          => FinalPath = Below(RepoTarget, File2)

C12_WitnessTryGetNextPath ==
    /\ SourceIsJunction
    /\ NextPathOf(Below(RepoSource, Symlink2))
    /\ last.status
    /\ last.target = Below(RepoTarget, File2)

\* ResolveAllReparsePointsAndEnforceAccess ends on repo\intermediate\target\file2.txt
C12_ResolveAllSubstitutesTheJunction ==
    /\ SourceIsJunction
    /\ Resolved(Below(RepoSource, Symlink2))
    /\ walk.fn = "ResolveAll"
    /\ ~walk.preserveLast
    /\ FinalPath = Below(Below(RepoIntermediate, <<"T">>), File2)

(***************************************************************************)
(* The functions without side effects, each applied once to arguments      *)
(* drawn from bounded sets.  `last` holds the arguments of the call, and   *)
(* after the call what it returned.                                        *)
(***************************************************************************)
\* how many directories the prefixes have below their root, and how many
\* "..\" the relative targets start with
MaxDepth == 3

MaxDotDots == 4

\* the roots of the prefixes: a drive, a single separator, none
PrefixRoots == {<<"C", ":", "\\">>, <<"\\">>, <<>>}

PrefixNames == <<<<"P">>, <<"D">>, <<"A">>, <<"B">>>>

\* the reparse point paths composed with a relative target: `depth` names
\* below the root, with or without a separator at the end
Prefixes ==
    {root \o JoinComponents(SubSeq(PrefixNames, 1, depth)) \o ending :
        root \in PrefixRoots, depth \in 1..MaxDepth, ending \in {<<>>, <<"\\">>}}

DotDots(n) == [i \in 1..(3 * n) |-> IF i % 3 = 0 THEN "\\" ELSE "."]

RelativeTargets ==
    {lead \o DotDots(n) \o rest :
        lead \in {<<>>, <<".", "\\">>}, n \in 0..MaxDotDots,
        rest \in {<<"X">>, <<"T", "\\", "X">>, <<".", "\\", "X">>}}

\* the atoms of path in the order the caller pushed them onto `processed`
RECURSIVE ReverseSeq(_)
ReverseSeq(s) == IF s = <<>> THEN <<>> ELSE Append(ReverseSeq(Tail(s)), Head(s))

ResolverInputs ==
    {[op |-> "input", fn |-> "TryResolveRelativeTarget", result |-> prefix,
      relativeTarget |-> target, withLists |-> withLists] :
        prefix \in Prefixes, target \in RelativeTargets, withLists \in BOOLEAN}

\* TryResolveRelativeTarget(result, relativeTarget, processed, needToBeProcessed)
Apply_TryResolveRelativeTarget ==
    /\ last.op = "input"
    /\ last.fn = "TryResolveRelativeTarget"
    /\ Let(TryResolveRelativeTargetSimple(
               last.result, last.relativeTarget,
               IF last.withLists THEN ReverseSeq(SplitPathsReverse(last.result, <<>>))
               ELSE <<>>,
               <<>>, last.withLists), LAMBDA r :
       last' = [op |-> "TryResolveRelativeTarget", args |-> last, ret |-> r])
    /\ UNCHANGED <<fs, cache, flags, manifest, walk, reports, memo, ops>>

\* how many "..\" a relative target starts with, ".\" not counted
RECURSIVE LeadingDotDots(_, _)
LeadingDotDots(relativeTarget, pos) ==
    IF StartWithDotSlash(relativeTarget, pos, Len(relativeTarget) - pos)
    THEN LeadingDotDots(relativeTarget, pos + 2)
    ELSE IF StartWithDotDotSlash(relativeTarget, pos, Len(relativeTarget) - pos)
    THEN 1 + LeadingDotDots(relativeTarget, pos + 3)
    ELSE 0

\* how many directories lie above the directory of the reparse point that
\* prefix names: C:\P\D\A lies in C:\P\D, above which are C:\P and C:\
AncestorComponents(prefix) ==
    LET trimmed == IF prefix # <<>> /\ prefix[Len(prefix)] = "\\"
                   THEN SubSeq(prefix, 1, Len(prefix) - 1) ELSE prefix
    IN  Cardinality({i \in 1..Len(trimmed) : trimmed[i] = "\\"}) - 1

\* TryResolveRelativeTarget has returned
Resolver == last.op = "TryResolveRelativeTarget"

TooManyDotDots ==
    LeadingDotDots(last.args.relativeTarget, 0) > AncestorComponents(last.args.result)

\* the path returned starts with the root of the prefix
KeepsRoot ==
    LET root == GetRootLength(last.args.result)
    IN  /\ Len(last.ret.result) >= root
        /\ SubSeq(last.ret.result, 1, root) = SubSeq(last.args.result, 1, root)
        /\ GetRootLength(last.ret.result) = root

(* C13: TryResolveRelativeTarget returns false whenever the relative       *)
(* target starts with more "..\" than the prefix has directories above the *)
(* directory of the reparse point, one "..\" too many and prefixes that    *)
(* start with a separator included; and a path it returns (composed, no    *)
(* atom lists passed) starts with the root of the prefix.                  *)
C13_TooManyDotDotsFail ==
    Resolver
    => /\ TooManyDotDots => ~last.ret.ok
       /\ (last.ret.ok /\ ~last.args.withLists) => KeepsRoot

\* the part of C13 that holds: a prefix that does not start with a
\* separator and a target with at least two "..\" too many
C13_TwoTooManyFail ==
    (/\ Resolver
     /\ last.args.result[1] # "\\"
     /\ LeadingDotDots(last.args.relativeTarget, 0) > AncestorComponents(last.args.result) + 1)
    => ~last.ret.ok

\* C:\P with ..\X returns \X
C13_OneTooManyLosesTheRoot ==
    /\ Resolver
    /\ last.args.result = <<"C", ":", "\\", "P">>
    /\ last.args.relativeTarget = <<".", ".", "\\", "X">>
    /\ last.ret.ok
    /\ last.ret.result = <<"\\", "X">>

\* \P\D with ..\..\X finds the last separator again and returns \P\X
C13_IndexWraps ==
    /\ Resolver
    /\ last.args.result = <<"\\", "P", "\\", "D">>
    /\ last.args.relativeTarget = <<".", ".", "\\", ".", ".", "\\", "X">>
    /\ last.ret.ok
    /\ last.ret.result = <<"\\", "P", "\\", "X">>

\* sizeof(WCHAR): offsets and lengths of a reparse data buffer are in bytes
sizeof_WCHAR == 2

\* a REPARSE_DATA_BUFFER that holds the two names in its path buffer, the
\* print name first or the substitute name first
ReparseDataBuffer(reparseTag, printName, substituteName, printFirst) ==
    [ReparseTag |-> reparseTag,
     PathBuffer |-> IF printFirst THEN printName \o substituteName
                    ELSE substituteName \o printName,
     PrintNameOffset |-> IF printFirst THEN 0 ELSE Len(substituteName) * sizeof_WCHAR,
     PrintNameLength |-> Len(printName) * sizeof_WCHAR,
     SubstituteNameOffset |-> IF printFirst THEN Len(printName) * sizeof_WCHAR ELSE 0,
     SubstituteNameLength |-> Len(substituteName) * sizeof_WCHAR]

\* name.assign(PathBuffer + offset / sizeof(WCHAR), length / sizeof(WCHAR))
NameInPathBuffer(pReparseDataBuffer, offset, length) ==
    substr(pReparseDataBuffer.PathBuffer, offset \div sizeof_WCHAR, length \div sizeof_WCHAR)

\* the node whose reparse data the buffer holds
NodeOfReparseData(pReparseDataBuffer) ==
    [tag |-> pReparseDataBuffer.ReparseTag, dir |-> FALSE,
     printName |-> NameInPathBuffer(pReparseDataBuffer,
                                    pReparseDataBuffer.PrintNameOffset,
                                    pReparseDataBuffer.PrintNameLength),
     substituteName |-> NameInPathBuffer(pReparseDataBuffer,
                                         pReparseDataBuffer.SubstituteNameOffset,
                                         pReparseDataBuffer.SubstituteNameLength)]

\* the names found in reparse data buffers
PrintNames == {<<>>, <<" ">>, <<" ", " ">>, <<"T">>, PathT}

SubstituteNames == {<<>>, <<" ">>, <<"B">>, <<"T">>, PathB}

ReparseTags == {IO_REPARSE_TAG_SYMLINK, IO_REPARSE_TAG_MOUNT_POINT, IO_REPARSE_TAG_APPEXECLINK}

TargetNameInputs ==
    {[op |-> "input", fn |-> "GetTargetNameFromReparseData",
      printName |-> printName, substituteName |-> substituteName,
      pReparseDataBuffer |-> ReparseDataBuffer(reparseTag, printName, substituteName,
                                               printFirst),
      reparsePointType |-> reparseTag, name |-> name] :
        reparseTag \in ReparseTags, printName \in PrintNames,
        substituteName \in SubstituteNames, printFirst \in BOOLEAN,
        name \in {<<>>, <<"X">>}}

\* GetTargetNameFromReparseData(pReparseDataBuffer, reparsePointType, name)
Apply_GetTargetNameFromReparseData ==
    /\ last.op = "input"
    /\ last.fn = "GetTargetNameFromReparseData"
    /\ last' = [op |-> "GetTargetNameFromReparseData", args |-> last,
                ret |-> GetTargetNameFromReparseData(
                            NodeOfReparseData(last.pReparseDataBuffer),
                            last.reparsePointType, last.name)]
    /\ UNCHANGED <<fs, cache, flags, manifest, walk, reports, memo, ops>>

\* GetTargetNameFromReparseData has returned for a symlink or a mount point
TargetName ==
    /\ last.op = "GetTargetNameFromReparseData"
    /\ last.args.reparsePointType \in {IO_REPARSE_TAG_SYMLINK, IO_REPARSE_TAG_MOUNT_POINT}

(* C14: for the reparse data of a symlink or a mount point the name        *)
(* extracted is the print name when the print name is neither empty nor a  *)
(* single space, and the substitute name when the print name is empty or a *)
(* single space.                                                           *)
C14_PrintNameIsPreferred ==
    TargetName
    => last.ret = IF last.args.printName # <<>> /\ last.args.printName # <<" ">>
                  THEN last.args.printName
                  ELSE last.args.substituteName

C14_Witness ==
    /\ TargetName
    /\ last.args.printName = PathT
    /\ last.args.substituteName = PathB
    /\ last.ret = PathT

C14_WitnessSubstituteName ==
    /\ TargetName
    /\ last.args.printName = <<" ">>
    /\ last.args.substituteName = PathB
    /\ last.args.pReparseDataBuffer.SubstituteNameOffset > 0
    /\ last.ret = PathB


\* the operands of Combine
ResultActions == {"Allow", "Warn", "Deny"}

ReportLevels == {"Ignore", "Report", "ReportExplicit"}

PathValidities == {"Valid", "PathComponentNotFound", "Invalid"}

RequestedAccesses == {{}, {"Read"}, {"Write"}, {"Read", "Probe"}}

AccessCheckResults ==
    {AccessCheckResult(access, result, level, validity) :
        access \in RequestedAccesses, result \in ResultActions,
        level \in ReportLevels, validity \in PathValidities}

CombineInputs ==
    {[op |-> "input", fn |-> "Combine", left |-> left, right |-> right] :
        left \in AccessCheckResults, right \in AccessCheckResults}

\* AccessCheckResult::Combine(left, right)
Apply_Combine ==
    /\ last.op = "input"
    /\ last.fn = "Combine"
    /\ last' = [op |-> "Combine", args |-> last, ret |-> Combine(last.left, last.right)]
    /\ UNCHANGED <<fs, cache, flags, manifest, walk, reports, memo, ops>>

\* Allow < Warn < Deny, Ignore < Report < ReportExplicit,
\* Valid < PathComponentNotFound < Invalid
Restrictiveness(x) ==
    CASE x \in {"Allow", "Ignore", "Valid"} -> 0
      [] x \in {"Warn", "Report", "PathComponentNotFound"} -> 1
      [] x \in {"Deny", "ReportExplicit", "Invalid"} -> 2

MostRestrictive(x, y) == IF Restrictiveness(y) > Restrictiveness(x) THEN y ELSE x

(* C18: Combine(left, right) returns the most restrictive of each          *)
(* component of its operands: the greater Result under Allow < Warn <      *)
(* Deny, the greater Level under Ignore < Report < ReportExplicit, the     *)
(* greater Validity under Valid < PathComponentNotFound < Invalid, and the *)
(* union of the accesses requested.                                        *)
C18_CombineIsMostRestrictive ==
    last.op = "Combine"
    => /\ last.ret.Result = MostRestrictive(last.args.left.Result, last.args.right.Result)
       /\ last.ret.Level = MostRestrictive(last.args.left.Level, last.args.right.Level)
       /\ last.ret.Validity = MostRestrictive(last.args.left.Validity,
                                              last.args.right.Validity)
       /\ last.ret.Access = last.args.left.Access \cup last.args.right.Access

C18_Witness ==
    /\ last.op = "Combine"
    /\ last.args.left = AccessCheckResult({"Write"}, "Warn", "ReportExplicit", "Valid")
    /\ last.args.right = AccessCheckResult({"Read", "Probe"}, "Deny", "Report",
                                           "PathComponentNotFound")
    /\ last.ret = AccessCheckResult({"Read", "Write", "Probe"}, "Deny", "ReportExplicit",
                                    "PathComponentNotFound")


(***************************************************************************)
(* Enforcement of the hops of a chain.  The manifest denies some paths; the *)
(* process calls EnforceChainOfReparsePointAccesses the way the detours of  *)
(* CreateFileW and NtCreateFile do, and EnforceReparsePointAccess on single *)
(* paths.                                                                   *)
(***************************************************************************)
MaxEnforce == 2

PathM == Root(<<"M">>)

\* a name that no file system can parse
PathInvalid == Root(<<"?">>)

\* the paths EnforceReparsePointAccess is called on: a link, a file, a
\* directory, a path whose leaf is missing, a path whose parent is missing
\* and a path with an invalid name
EnforcePaths == {PathA, PathT, PathE, PathO, Below(PathM, <<"Z">>), PathInvalid}

\* the paths the chains are walked from
ChainPaths == {PathA, Below(PathD, <<"X">>)}

DenySets == {{}, {PathB}, {PathT}, EnforcePaths \cup {PathB}}

Denying(paths) == [full |-> {}, deny |-> {CacheKey(Canonicalize(p)) : p \in paths}, indeterminate |-> {}]

\* what the status cell of NtCreateFile, a local that is not initialized, may
\* hold when the chain is enforced
IndeterminateStatuses == {0, StatusObjectNameInvalid}

Caller(dwDesiredAccess, dwShareMode, dwCreationDisposition, dwFlagsAndAttributes, pNtStatus, isCreateDirectory, preserveLastReparsePoint) ==
    [access |-> dwDesiredAccess, share |-> dwShareMode,
     disposition |-> dwCreationDisposition, attrs |-> dwFlagsAndAttributes,
     pNtStatus |-> pNtStatus, isCreateDirectory |-> isCreateDirectory,
     preserveLast |-> preserveLastReparsePoint]

\* the callers of EnforceChainOfReparsePointAccesses: CreateFileW that reads,
\* CreateFileW that asks for neither read nor write nor probe access,
\* NtCreateFile that creates a directory, and NtCreateFile that opens a
\* handle to a reparse point for reading and writing
Callers ==
    {Caller({"GENERIC_READ"}, {"FILE_SHARE_READ"}, "OPEN_EXISTING",
            {"FILE_ATTRIBUTE_NORMAL"}, nullptr, FALSE, FALSE),
     Caller({"SYNCHRONIZE"}, {"FILE_SHARE_READ"}, "OPEN_EXISTING",
            {"FILE_ATTRIBUTE_NORMAL"}, nullptr, FALSE, FALSE)}
    \cup {Caller({"GENERIC_WRITE"}, {}, "CREATE_NEW", {"FILE_ATTRIBUTE_NORMAL"},
                 PointerTo(ntStatus), TRUE, FALSE) : ntStatus \in IndeterminateStatuses}
    \cup {Caller({"GENERIC_READ", "GENERIC_WRITE"}, {"FILE_SHARE_READ"}, "OPEN_ALWAYS",
                 {"FILE_FLAG_OPEN_REPARSE_POINT"}, PointerTo(ntStatus), FALSE, TRUE) :
             ntStatus \in IndeterminateStatuses}

\* EnforceChainOfReparsePointAccesses(path, INVALID_HANDLE_VALUE, ...) is
\* called with the arguments of `caller`: it returns at once, replays a
\* cached chain, or enters a walker
Call_EnforceChainFrom(path, caller) ==
    /\ walk.pc \in {"idle", "done"}
    /\ ops < MaxEnforce
    /\ Let(EnterEnforceChain(cache, Canonicalize(path), INVALID_HANDLE_VALUE,
                             caller.access, caller.share, caller.disposition,
                             caller.attrs, PolicyResult_Initialize(path),
                             caller.pNtStatus, TRUE, caller.isCreateDirectory, TRUE,
                             caller.preserveLast),
           LAMBDA en :
       /\ ops' = ops + 1
       /\ walk' = IF en.returned THEN [en.walk EXCEPT !.pc = "done"] ELSE en.walk
       /\ reports' = en.reports
       /\ last' = [NoCall EXCEPT !.op = "EnforceChainOfReparsePointAccesses",
                                 !.path = path, !.returned = en.returned]
       /\ UNCHANGED <<fs, cache, flags, manifest, memo>>)

\* the last errors the thread may hold when EnforceReparsePointAccess is
\* called
LastErrors == {ERROR_SUCCESS, ERROR_FILE_NOT_FOUND}

\* EnforceReparsePointAccess(path, ...) is called with the arguments of
\* `caller` while the thread's last error is lastError
Call_EnforceReparsePointAccess(lastError, path, caller, enforceAccess, isFullyResolvedPath) ==
    /\ walk.pc = "idle"
    /\ Let(EnforceReparsePointAccess(lastError, path, caller.access, caller.share,
                                     caller.disposition, caller.attrs, caller.pNtStatus,
                                     enforceAccess, caller.isCreateDirectory,
                                     isFullyResolvedPath, "ReparsePointTarget"),
           LAMBDA e :
       /\ last' = [op |-> "EnforceReparsePointAccess",
                   args |-> [lastError |-> lastError, path |-> path, caller |-> caller,
                             enforceAccess |-> enforceAccess,
                             isFullyResolvedPath |-> isFullyResolvedPath],
                   ret |-> e]
       /\ reports' = e.report
       /\ UNCHANGED <<fs, cache, flags, manifest, walk, memo, ops>>)

InitEnforce ==
    /\ fs = InitialFs
    /\ cache = EmptyCache
    /\ flags \in {Flags(FALSE, FALSE), Flags(FALSE, TRUE)}
    /\ \E paths \in DenySets : manifest = Denying(paths)
    /\ walk = IdleWalk
    /\ reports = <<>>
    /\ last = NoCall
    /\ memo = <<>>
    /\ ops = 0

NextEnforce ==
    \/ \E path \in ChainPaths : \E caller \in Callers : Call_EnforceChainFrom(path, caller)
    \/ DetourGetFinalPathsStep(DeviceOk)
    \/ ResolveAllStep(DeviceOk)
    \/ \E lastError \in LastErrors : \E path \in EnforcePaths : \E caller \in Callers :
          \E enforceAccess \in BOOLEAN : \E isFullyResolvedPath \in BOOLEAN :
             Call_EnforceReparsePointAccess(lastError, path, caller, enforceAccess,
                                            isFullyResolvedPath)

SpecEnforce == InitEnforce /\ [][NextEnforce]_vars

\* a call of EnforceChainOfReparsePointAccesses has returned
ChainEnforced ==
    /\ last.op = "EnforceChainOfReparsePointAccesses"
    /\ walk.pc = "done"

AsksForAccess(access) ==
    WantsReadAccess(access) \/ WantsWriteAccess(access) \/ WantsProbeOnlyAccess(access)

\* the paths of the reports, in the order the reports were sent
ReportedPaths == [i \in 1..Len(reports) |-> reports[i].Path]

\* the hops of the chain that ask for an access: every hop but the fully
\* resolved one of a caller that asks for none
HopsWithAccess ==
    IF AsksForAccess(walk.access) \/ walk.order = <<>> THEN walk.order
    ELSE IF HasType(walk.order[Len(walk.order)], "FullyResolved")
    THEN SubSeq(walk.order, 1, Len(walk.order) - 1)
    ELSE walk.order

SomeHopDenied == \E i \in 1..Len(reports) : reports[i].Denied

ReportOfFullyResolvedHop(i) == HasType(reports[i].Path, "FullyResolved")

\* C16: the hops of a chain are enforced and reported in chain order.  At
\* every moment of a call of EnforceChainOfReparsePointAccesses, while a
\* walker runs and after it has returned, fresh or replayed from the cache,
\* the i-th report sent is the report of the i-th hop discovered, and no
\* report of an intermediate hop comes after the report of the fully
\* resolved hop.
C16_HopsAreReportedInChainOrder ==
    last.op = "EnforceChainOfReparsePointAccesses" =>
        /\ Len(reports) <= Len(walk.order)
        /\ \A i \in 1..Len(reports) : SameKey(reports[i].Path, walk.order[i])
        /\ \A i \in 1..Len(reports) : \A j \in 1..Len(reports) :
              (i < j /\ walk.pc = "done") =>
                  ~(ReportOfFullyResolvedHop(i) /\ ~ReportOfFullyResolvedHop(j))

\* the cached chain C:\A -> C:\B -> C:\T was replayed: the three reports
\* came in the order of the chain, the one of the fully resolved C:\T last
C16_Witness ==
    /\ ChainEnforced
    /\ walk.cached
    /\ Len(reports) = 3
    /\ SameKey(reports[1].Path, PathA) /\ ~ReportOfFullyResolvedHop(1)
    /\ SameKey(reports[2].Path, PathB) /\ ~ReportOfFullyResolvedHop(2)
    /\ SameKey(reports[3].Path, PathT) /\ ReportOfFullyResolvedHop(3)
    /\ \A i \in 1..3 : reports[i].Operation = "ReparsePointTargetCached"

\* the same chain on fresh resolution, one hop at a time: two reports are
\* out and the walker has not returned yet
C16_WitnessFresh ==
    /\ last.op = "EnforceChainOfReparsePointAccesses"
    /\ walk.pc = "ResolveAll"
    /\ Len(reports) = 2
    /\ SameKey(reports[1].Path, PathA)
    /\ SameKey(reports[2].Path, PathB)
    /\ \A i \in 1..2 : reports[i].Operation = "ReparsePointTarget"


\* the context of the open that reads a reparse point
ReadProbeContext(report) ==
    /\ report.DesiredAccess = {"GENERIC_READ"}
    /\ report.ShareMode = {"FILE_SHARE_READ", "FILE_SHARE_DELETE", "FILE_SHARE_WRITE"}
    /\ report.CreationDisposition = "OPEN_EXISTING"
    /\ report.FlagsAndAttributes = {"FILE_FLAG_OPEN_REPARSE_POINT",
                                    "FILE_FLAG_BACKUP_SEMANTICS"}

\* the context the caller asked for
CallerContext(report, dwDesiredAccess, dwShareMode, dwCreationDisposition, dwFlagsAndAttributes) ==
    /\ report.DesiredAccess = dwDesiredAccess
    /\ report.ShareMode = dwShareMode
    /\ report.CreationDisposition = dwCreationDisposition
    /\ report.FlagsAndAttributes = dwFlagsAndAttributes

C17_WitnessSingleHop ==
    /\ last.op = "EnforceReparsePointAccess"
    /\ ~last.args.isFullyResolvedPath
    /\ last.args.enforceAccess
    /\ last.args.caller.access = {"GENERIC_WRITE"}
    /\ last.ret.checks = {"CheckReadAccess"}
    /\ Len(reports) = 1


\* the last error and the status of a denial, by path validity
DenialCodes(validity) ==
    CASE validity = "Valid" -> <<ERROR_ACCESS_DENIED, StatusAccessDenied>>
      [] validity = "PathComponentNotFound" ->
            <<ERROR_PATH_NOT_FOUND, StatusObjectPathNotFound>>
      [] validity = "Invalid" -> <<ERROR_INVALID_NAME, StatusObjectNameInvalid>>

\* EnforceReparsePointAccess has returned and has denied the hop
HopDenied == last.op = "EnforceReparsePointAccess" /\ ~last.ret.ret

\* C19: when EnforceReparsePointAccess denies a hop, the thread's last error
\* is the denial error and, when pNtStatus is supplied, *pNtStatus is the
\* denial status, both chosen by the PathValidity of the decision (Valid:
\* access denied, PathComponentNotFound: path not found, Invalid: invalid
\* name) and never any other code; without pNtStatus nothing is written;
\* when the hop is allowed the last error is the one on entry and
\* *pNtStatus is untouched.
C19_DenialSetsErrorAndStatus ==
    last.op = "EnforceReparsePointAccess" =>
        IF ~last.ret.ret
        THEN /\ last.args.enforceAccess
             /\ last.ret.accessCheck.Result = "Deny"
             /\ last.ret.lastError = DenialCodes(last.ret.accessCheck.Validity)[1]
             /\ last.ret.lastError \in {5, 3, 123}
             /\ IF last.args.caller.pNtStatus = nullptr
                THEN last.ret.ntStatus = nullptr
                ELSE last.ret.ntStatus = <<DenialCodes(last.ret.accessCheck.Validity)[2]>>
        ELSE /\ last.ret.lastError = last.args.lastError
             /\ last.ret.ntStatus = last.args.caller.pNtStatus

\* a write to C:\M\Z, whose directory C:\M does not exist, was denied while
\* the last error was ERROR_FILE_NOT_FOUND and a status cell was supplied:
\* the last error is ERROR_PATH_NOT_FOUND and the cell holds
\* StatusObjectPathNotFound
C19_Witness ==
    /\ HopDenied
    /\ last.args.path = Below(PathM, <<"Z">>)
    /\ last.args.lastError = ERROR_FILE_NOT_FOUND
    /\ last.ret.accessCheck.Validity = "PathComponentNotFound"
    /\ last.args.caller.pNtStatus # nullptr
    /\ last.ret.lastError = ERROR_PATH_NOT_FOUND
    /\ last.ret.ntStatus = <<StatusObjectPathNotFound>>

\* a write to a path with an invalid name was denied
C19_WitnessInvalidName ==
    /\ HopDenied
    /\ last.ret.accessCheck.Validity = "Invalid"
    /\ last.ret.lastError = ERROR_INVALID_NAME
    /\ last.ret.ntStatus = <<StatusObjectNameInvalid>>

\* a read of an existing path was denied, no status cell supplied
C19_WitnessAccessDenied ==
    /\ HopDenied
    /\ last.ret.accessCheck.Validity = "Valid"
    /\ last.args.lastError = ERROR_FILE_NOT_FOUND
    /\ last.ret.lastError = ERROR_ACCESS_DENIED
    /\ last.ret.ntStatus = nullptr

\* a hop was allowed while the last error was ERROR_FILE_NOT_FOUND and the
\* status cell held a value: both are as they were
C19_WitnessAllowed ==
    /\ last.op = "EnforceReparsePointAccess"
    /\ last.args.enforceAccess
    /\ last.ret.ret
    /\ last.args.lastError = ERROR_FILE_NOT_FOUND
    /\ last.ret.lastError = ERROR_FILE_NOT_FOUND
    /\ last.ret.ntStatus = <<StatusObjectNameInvalid>>


(***************************************************************************)
(* The handles of TryGetReparsePointTarget.                                *)
(***************************************************************************)
\* TryGetReparsePointTarget(path, hInput, target, policy of path) is called,
\* with a handle of the caller on the object at path or with
\* INVALID_HANDLE_VALUE, while the device behaves as dev
Call_TryGetReparsePointTargetWithHandle(path, withHandle, dev) ==
    /\ ops < MaxOps
    /\ Let(PolicyResult_Initialize(path), LAMBDA policyResult :
       Let(IF withHandle THEN HandleOn(path) ELSE INVALID_HANDLE_VALUE, LAMBDA hInput :
       Let(TryGetReparsePointTarget(cache, path, hInput, <<>>, policyResult, dev),
           LAMBDA r :
       /\ ops' = ops + 1
       /\ cache' = r.cache
       /\ last' = [op |-> "TryGetReparsePointTarget", path |-> path, hInput |-> hInput,
                   dev |-> dev, status |-> r.status, target |-> r.target, io |-> r.io,
                   before |-> cache]
       /\ reports' = <<>>
       /\ UNCHANGED <<fs, flags, manifest, walk, memo>>)))

NextHandles ==
    \E path \in ReadPaths : \E withHandle \in BOOLEAN : \E dev \in DeviceOutcomes :
       Call_TryGetReparsePointTargetWithHandle(path, withHandle, dev)

SpecHandles == Init /\ [][NextHandles]_vars

\* the call had no handle of its caller and CreateFileW gave it one
OpenedItsOwnHandle ==
    /\ last.hInput = INVALID_HANDLE_VALUE
    /\ last.io.open = 1
    /\ last.dev.open
    /\ OsObject(fs, last.path) \in DOMAIN fs

\* C20: TryGetReparsePointTarget calls CreateFileW at most once; when that
\* gave it a handle it calls CloseHandle exactly once before it returns,
\* whatever the exit (success, device query failure, non-actionable tag);
\* when it opened nothing (cache hit, not a reparse point, open failure) or
\* was given a handle by its caller it closes nothing.
C20_OwnHandleIsClosedCallersIsNot ==
    last.op = "TryGetReparsePointTarget" =>
        /\ last.io.open <= 1
        /\ last.io.close = (IF OpenedItsOwnHandle THEN 1 ELSE 0)
        /\ last.hInput # INVALID_HANDLE_VALUE => (last.io.open = 0 /\ last.io.close = 0)

\* the device query failed on a handle the call had opened: it was closed
C20_Witness ==
    /\ last.op = "TryGetReparsePointTarget"
    /\ OpenedItsOwnHandle
    /\ last.dev = DeviceQueryFails
    /\ ~last.status
    /\ last.io.ioctl = 1
    /\ last.io.close = 1

\* the reparse point is neither a symlink nor a mount point
C20_WitnessNotActionable ==
    /\ last.op = "TryGetReparsePointTarget"
    /\ last.path = PathN
    /\ OpenedItsOwnHandle
    /\ last.io.ioctl = 1 /\ ~last.status /\ last.io.close = 1

C20_WitnessSuccess ==
    /\ last.op = "TryGetReparsePointTarget"
    /\ OpenedItsOwnHandle /\ last.status /\ last.io.close = 1

C20_WitnessOpenFailure ==
    /\ last.op = "TryGetReparsePointTarget"
    /\ last.hInput = INVALID_HANDLE_VALUE
    /\ last.io.open = 1 /\ ~last.dev.open /\ ~last.status /\ last.io.close = 0

\* the target was in the cache: nothing was opened
C20_WitnessCacheHit ==
    /\ last.op = "TryGetReparsePointTarget"
    /\ CacheKey(last.path) \in DOMAIN last.before.target
    /\ last.status /\ last.io.open = 0 /\ last.io.close = 0

\* the caller's handle was used for the query and was left open
C20_WitnessCallersHandle ==
    /\ last.op = "TryGetReparsePointTarget"
    /\ last.hInput # INVALID_HANDLE_VALUE
    /\ last.io.ioctl >= 1 /\ last.io.open = 0 /\ last.io.close = 0


(***************************************************************************)
(* The growing-buffer loop of TryGetReparsePointTarget, one DeviceIoControl *)
(* call at a time.  TLC's integers are 32-bit signed, so the DWORD          *)
(* bufferSize, which only ever holds multiples of its initial value 1024,   *)
(* is counted in units of 1024 bytes: 2^32 bytes are 2^22 units.            *)
(***************************************************************************)
DWORD_ModulusInUnits == 4194304

\* the paths whose object CreateFileW opens
LoopPaths == {PathA, PathT, PathN, PathD}

\* what DeviceIoControl(FSCTL_GET_REPARSE_POINT) may answer
DeviceReplies ==
    {ERROR_SUCCESS, ERROR_INSUFFICIENT_BUFFER, ERROR_MORE_DATA, ERROR_ACCESS_DENIED,
     ERROR_NOT_A_REPARSE_POINT}

\* the loop `while (errorCode == ERROR_MORE_DATA || errorCode ==
\* ERROR_INSUFFICIENT_BUFFER)` is at its test and goes round again
LoopRunning ==
    /\ last.op = "DeviceIoControlLoop"
    /\ last.pc = "while"
    /\ last.errorCode \in {ERROR_MORE_DATA, ERROR_INSUFFICIENT_BUFFER}

\* TryGetReparsePointTarget(path, INVALID_HANDLE_VALUE, ...) has opened the
\* object at path and reaches the loop: bufferSize is the initial size,
\* errorCode is ERROR_INSUFFICIENT_BUFFER
EnterDeviceIoControlLoop(path) ==
    /\ ~(last.op = "DeviceIoControlLoop" /\ last.pc = "while")
    /\ OsObject(fs, path) \in DOMAIN fs
    /\ last' = [op |-> "DeviceIoControlLoop", pc |-> "while", path |-> path,
                bufferSize |-> 1, errorCode |-> ERROR_INSUFFICIENT_BUFFER,
                wrapped |-> FALSE]
    /\ UNCHANGED <<fs, cache, flags, manifest, walk, reports, memo, ops>>

\* one iteration: the buffer is resized to bufferSize and the device is
\* queried; on failure bufferSize is doubled as a DWORD
DeviceIoControlStep(reply) ==
    /\ LoopRunning
    /\ last' = IF reply = ERROR_SUCCESS
               THEN [last EXCEPT !.errorCode = ERROR_SUCCESS]
               ELSE [last EXCEPT !.errorCode = reply,
                                 !.bufferSize = (@ * 2) % DWORD_ModulusInUnits,
                                 !.wrapped = @ \/ (last.bufferSize * 2 >= DWORD_ModulusInUnits)]
    /\ UNCHANGED <<fs, cache, flags, manifest, walk, reports, memo, ops>>

\* the loop is left: errorCode is neither of the two codes
LeaveDeviceIoControlLoop ==
    /\ last.op = "DeviceIoControlLoop"
    /\ last.pc = "while"
    /\ last.errorCode \notin {ERROR_MORE_DATA, ERROR_INSUFFICIENT_BUFFER}
    /\ last' = [last EXCEPT !.pc = IF last.errorCode = ERROR_SUCCESS THEN "read"
                                   ELSE "Error"]
    /\ UNCHANGED <<fs, cache, flags, manifest, walk, reports, memo, ops>>

NextLoop ==
    \/ \E path \in LoopPaths : EnterDeviceIoControlLoop(path)
    \/ \E reply \in DeviceReplies : DeviceIoControlStep(reply)
    \/ LeaveDeviceIoControlLoop

SpecLoop == Init /\ [][NextLoop]_vars

\* the thread that runs the loop keeps running
SpecLoopFair ==
    /\ SpecLoop
    /\ WF_vars(\E reply \in DeviceReplies : DeviceIoControlStep(reply))
    /\ WF_vars(LeaveDeviceIoControlLoop)

\* C21: the growing-buffer loop terminates for every behaviour of the
\* device: whenever the loop runs, it is eventually left, also when the
\* device keeps answering that the buffer is insufficient.
C21_LoopTerminates == LoopRunning ~> ~LoopRunning

\* the part of the statement that holds: the loop starts with 1024 bytes,
\* the size is doubled modulo 2^32 on each failed query, and the loop is
\* left at the first reply that is neither of the two codes
C21_SizeDoublesAndOtherRepliesEnd ==
    [][LoopRunning =>
         \/ /\ LoopRunning'
            /\ last'.bufferSize = (last.bufferSize * 2) % DWORD_ModulusInUnits
         \/ /\ ~LoopRunning'
            /\ last'.errorCode \notin {ERROR_MORE_DATA, ERROR_INSUFFICIENT_BUFFER}]_vars

\* after 22 doublings the DWORD has wrapped: the buffer has 0 bytes and the
\* loop is still running
C21_BufferSizeWrappedToZero ==
    LoopRunning /\ last.wrapped /\ last.bufferSize = 0

\* the loop never runs with a buffer of 0 bytes
C21_BufferIsNeverEmpty == LoopRunning => last.bufferSize > 0


(***************************************************************************)
(* DetouredScope: the re-entrancy guard of the detours.  gt_DetouredCount   *)
(* is declared __declspec(thread): one counter per thread.  A scope is a    *)
(* local object of a detour, so the scopes of a thread end in the reverse   *)
(* order of their construction, and the code that runs on a thread belongs  *)
(* to the innermost live scope of that thread.                              *)
(***************************************************************************)
MaxNesting == 3

Threads == {"thread1", "thread2"}

\* mutant: the counter is compared with its value before the first scope
Detoured_IsDisabled_ComparesWithZero(gt_DetouredCount) == gt_DetouredCount # 0

\* DetouredScope::Detoured_IsDisabled
Detoured_IsDisabled(gt_DetouredCount) == gt_DetouredCount # 1

NoScopes ==
    [op |-> "none", thread |-> "thread1",
     gt_DetouredCount |-> [thread \in Threads |-> 0],
     scopes |-> [thread \in Threads |-> <<>>]]

InitScopes ==
    /\ fs = InitialFs
    /\ cache = EmptyCache
    /\ \E configuration \in Configurations :
          flags = configuration[1] /\ manifest = configuration[2]
    /\ walk = IdleWalk
    /\ reports = <<>>
    /\ last = NoScopes
    /\ memo = <<>>
    /\ ops = 0

\* DetouredScope::DetouredScope() on a thread: a detour is entered (`DetouredScope
\* scope;`), possibly from inside a Real_ call of another detour
DetouredScope_Constructor(thread) ==
    /\ Len(last.scopes[thread]) < MaxNesting
    /\ last' = [last EXCEPT
                  !.op = "DetouredScope", !.thread = thread,
                  !.gt_DetouredCount[thread] = @ + 1,
                  !.scopes[thread] = Append(@, [entered |-> last.gt_DetouredCount[thread],
                                                asked |-> FALSE, disabled |-> FALSE])]
    /\ UNCHANGED <<fs, cache, flags, manifest, walk, reports, memo, ops>>

\* scope.Detoured_IsDisabled() by the detour that is running on the thread
Call_Detoured_IsDisabled(thread) ==
    /\ last.scopes[thread] # <<>>
    /\ ~last.scopes[thread][Len(last.scopes[thread])].asked
    /\ last' = [last EXCEPT
                  !.op = "Detoured_IsDisabled", !.thread = thread,
                  !.scopes[thread][Len(last.scopes[thread])] =
                      [@ EXCEPT !.asked = TRUE,
                                !.disabled = Detoured_IsDisabled(last.gt_DetouredCount[thread])]]
    /\ UNCHANGED <<fs, cache, flags, manifest, walk, reports, memo, ops>>

\* DetouredScope::~DetouredScope(): the block of the scope is left
DetouredScope_Destructor(thread) ==
    /\ last.scopes[thread] # <<>>
    /\ last' = [last EXCEPT
                  !.op = "~DetouredScope", !.thread = thread,
                  !.gt_DetouredCount[thread] = @ - 1,
                  !.scopes[thread] = SubSeq(@, 1, Len(@) - 1)]
    /\ UNCHANGED <<fs, cache, flags, manifest, walk, reports, memo, ops>>

NextScopes ==
    \/ \E thread \in Threads : DetouredScope_Constructor(thread)
    \/ \E thread \in Threads : Call_Detoured_IsDisabled(thread)
    \/ \E thread \in Threads : DetouredScope_Destructor(thread)

SpecScopes == InitScopes /\ [][NextScopes]_vars

C22_CountReturnsAndIsThreadLocal ==
    [][/\ \A thread \in Threads \ {last'.thread} :
             last'.gt_DetouredCount[thread] = last.gt_DetouredCount[thread]
       /\ last'.op = "~DetouredScope" =>
             last'.gt_DetouredCount[last'.thread] =
                 last.scopes[last'.thread][Len(last.scopes[last'.thread])].entered]_vars


(***************************************************************************)
(* AdjustOperationContextAndPolicyResultWithFullyResolvedPath called by a   *)
(* detour with the policy of the path of its operation.                     *)
(***************************************************************************)
MaxAdjust == 2

Manifest(full, deny, indeterminate) ==
    [full |-> full, deny |-> {CacheKey(Canonicalize(p)) : p \in deny},
     indeterminate |-> {CacheKey(Canonicalize(p)) : p \in indeterminate}]

\* the configurations of Init, a manifest that denies the middle of the
\* chain of C:\A, and manifests for which the policy of C:\T, or of C:\B,
\* cannot be determined
AdjustConfigurations ==
    Configurations \cup
    {<<Flags(FALSE, FALSE), Manifest({}, {PathB}, {})>>,
     <<Flags(FALSE, FALSE), Manifest({}, {}, {PathT})>>,
     <<Flags(FALSE, FALSE), Manifest({}, {}, {PathB})>>}

AdjustPaths == {PathA, PathT, Below(PathD, <<"X">>), PathP, PathN, PathO}

\* the desired access and the flags of the operation: a read, a deletion of
\* the reparse point by DELETE access, one by FILE_FLAG_DELETE_ON_CLOSE, and
\* a deletion that does not open the reparse point
AdjustOperations ==
    {<<{"GENERIC_READ"}, {"FILE_ATTRIBUTE_NORMAL"}>>,
     <<{"DELETE"}, {"FILE_FLAG_OPEN_REPARSE_POINT"}>>,
     <<{"GENERIC_READ"}, {"FILE_FLAG_OPEN_REPARSE_POINT", "FILE_FLAG_DELETE_ON_CLOSE"}>>,
     <<{"DELETE"}, {"FILE_ATTRIBUTE_NORMAL"}>>}

AdjustDevices == {DeviceOk, DeviceQueryFails}

Call_AdjustOperationContextAndPolicyResultWithFullyResolvedPath(path, operation, preserveLastReparsePoint, dev) ==
    /\ ops < MaxAdjust
    /\ Let(PolicyResult_Initialize(path), LAMBDA policyResult :
       Let(AdjustOperationContextAndPolicyResultWithFullyResolvedPath(
               cache, operation[1], operation[2], policyResult, preserveLastReparsePoint, dev),
           LAMBDA adj :
       /\ ~policyResult.indeterminate
       /\ adj.returned
       /\ ops' = ops + 1
       /\ cache' = adj.cache
       /\ reports' = adj.reports
       /\ last' = [op |-> "AdjustOperationContextAndPolicyResultWithFullyResolvedPath",
                   path |-> policyResult.path, access |-> operation[1],
                   attrs |-> operation[2], preserveLast |-> preserveLastReparsePoint,
                   policy |-> policyResult, before |-> cache, adj |-> adj]
       /\ UNCHANGED <<fs, flags, manifest, walk, memo>>))

InitAdjust ==
    /\ fs = InitialFs
    /\ cache = EmptyCache
    /\ \E configuration \in AdjustConfigurations :
          flags = configuration[1] /\ manifest = configuration[2]
    /\ walk = IdleWalk
    /\ reports = <<>>
    /\ last = NoCall
    /\ memo = <<>>
    /\ ops = 0

NextAdjust ==
    \E path \in AdjustPaths : \E operation \in AdjustOperations :
        \E preserveLastReparsePoint \in BOOLEAN : \E dev \in AdjustDevices :
            Call_AdjustOperationContextAndPolicyResultWithFullyResolvedPath(
                path, operation, preserveLastReparsePoint, dev)

SpecAdjust == InitAdjust /\ [][NextAdjust]_vars

Adjusted == last.op = "AdjustOperationContextAndPolicyResultWithFullyResolvedPath"

\* no directory on the way to path and not path itself is a reparse point
NoReparsePointIn(path) ==
    LET comps == Components(path, 1, <<>>)
    IN  \A k \in 1..Len(comps) :
            OsNode(fs, JoinComponents(SubSeq(comps, 1, k))).tag = 0

C23_WitnessEnforcementFails ==
    /\ Adjusted
    /\ last.path = Canonicalize(PathA)
    /\ ~last.adj.accessResult /\ ~last.adj.ret
    /\ last.adj.policy = last.policy

\* C:\T holds no reparse point: true, nothing adjusted
C23_WitnessNoReparsePoint ==
    /\ Adjusted
    /\ ~Bypassed(last.policy)
    /\ NoReparsePointIn(last.path)
    /\ last.adj.ret /\ last.adj.policy = last.policy

\* the policy of the fully resolved path cannot be determined: the function
\* returns false after it has adjusted the path of the context
C23_WitnessIndeterminateResolvedPath ==
    /\ Adjusted
    /\ last.adj.accessResult /\ ~last.adj.ret
    /\ last.adj.opContextPath # last.path
    /\ last.adj.policy = last.policy


\* the operation deletes a reparse point: FILE_FLAG_OPEN_REPARSE_POINT with
\* DELETE access or with FILE_FLAG_DELETE_ON_CLOSE
ReparsePointDeletion ==
    /\ Adjusted
    /\ "FILE_FLAG_OPEN_REPARSE_POINT" \in last.attrs
    /\ ("DELETE" \in last.access \/ "FILE_FLAG_DELETE_ON_CLOSE" \in last.attrs)

C24_WitnessEnforcementFails ==
    /\ ReparsePointDeletion
    /\ last.path = Canonicalize(PathA)
    /\ ~last.adj.accessResult
    /\ NoMemoFor(cache, PathA)

\* the deletion of the file C:\T, opened with FILE_FLAG_OPEN_REPARSE_POINT:
\* the memo that C:\T is no reparse point, stored by this call, stays
C24_WitnessMemoStays ==
    /\ ReparsePointDeletion
    /\ last.path = Canonicalize(PathT)
    /\ ~Bypassed(last.policy)
    /\ NoMemoFor(last.before, PathT)
    /\ ~NoMemoFor(cache, PathT)


(***************************************************************************)
(* Enforcement when the policy of a hop cannot be determined.              *)
(***************************************************************************)
\* manifests without a policy for the middle or for the end of the chain of
\* C:\A, the second one denying C:\B as well
IndeterminateManifests ==
    {Manifest({}, {}, {PathB}), Manifest({}, {PathB}, {PathT}),
     Manifest({}, {}, {PathT, Below(PathD, <<"Y">>)})}

InitIndeterminate ==
    /\ fs = InitialFs
    /\ cache = EmptyCache
    /\ flags \in {Flags(FALSE, FALSE), Flags(FALSE, TRUE)}
    /\ manifest \in IndeterminateManifests
    /\ walk = IdleWalk
    /\ reports = <<>>
    /\ last = NoCall
    /\ memo = <<>>
    /\ ops = 0

SpecIndeterminate == InitIndeterminate /\ [][NextEnforce]_vars

\* the manifest gives no policy for path
NoPolicyFor(path) == CacheKey(Canonicalize(path)) \in manifest.indeterminate

IsIndeterminateReport(report) ==
    "Status" \in DOMAIN report /\ report.Status = "CannotDeterminePolicy"

ReportsOf(path) == {i \in 1..Len(reports) : reports[i].Path = path}

\* C25: when no policy can be initialized for the path of a hop,
\* EnforceReparsePointAccess returns false with exactly one report, the one
\* of the indeterminate policy, without consulting the read, write or
\* create-directory check and with the last error and the status cell as
\* they were; a chain with such a hop fails, and that hop has the
\* indeterminate report as its only report.
C25_IndeterminatePolicyFailsAtOnce ==
    /\ (last.op = "EnforceReparsePointAccess" /\ NoPolicyFor(last.args.path)) =>
          /\ ~last.ret.ret
          /\ Len(reports) = 1
          /\ IsIndeterminateReport(reports[1])
          /\ reports[1].Path = last.args.path
          /\ last.ret.checks = {}
          /\ last.ret.lastError = last.args.lastError
          /\ last.ret.ntStatus = last.args.caller.pNtStatus
    /\ ChainEnforced =>
          \A i \in 1..Len(walk.order) :
              NoPolicyFor(walk.order[i]) =>
                  /\ ~walk.success
                  /\ Cardinality(ReportsOf(walk.order[i])) = 1
                  /\ \A j \in ReportsOf(walk.order[i]) : IsIndeterminateReport(reports[j])
    /\ \A j \in 1..Len(reports) :
          IsIndeterminateReport(reports[j]) <=> NoPolicyFor(reports[j].Path)

\* the chain of C:\A was enforced while C:\B has no policy: the second of
\* the three reports is the indeterminate one and the call failed
C25_Witness ==
    /\ ChainEnforced
    /\ SameKey(walk.path, PathA)
    /\ Len(walk.order) = 3 /\ Len(reports) = 3
    /\ NoPolicyFor(walk.order[2])
    /\ IsIndeterminateReport(reports[2])
    /\ ~IsIndeterminateReport(reports[1]) /\ ~IsIndeterminateReport(reports[3])
    /\ ~walk.success

\* a writing caller's fully resolved hop without a policy: one report, no
\* check, the status cell untouched
C25_WitnessDirect ==
    /\ last.op = "EnforceReparsePointAccess"
    /\ NoPolicyFor(last.args.path)
    /\ last.args.enforceAccess /\ last.args.isFullyResolvedPath
    /\ WantsWriteAccess(last.args.caller.access)
    /\ last.args.caller.pNtStatus # nullptr
    /\ last.args.lastError = ERROR_FILE_NOT_FOUND
    /\ ~last.ret.ret /\ Len(reports) = 1


\* C26: EnforceReparsePointAccess always reports the access of the hop, for
\* an allowed as well as a denied hop and whether or not enforceAccess is
\* set: every call sends one report for its path, tagged with the context
\* name it was given.
C26_EveryHopIsReported ==
    last.op = "EnforceReparsePointAccess" =>
        /\ Len(reports) = 1
        /\ reports[1].Path = last.args.path
        /\ reports[1].Operation = "ReparsePointTarget"

\* a reading caller's hop, not enforced: no report is sent
C26_NotEnforcedIsNotReported ==
    /\ last.op = "EnforceReparsePointAccess"
    /\ ~last.args.enforceAccess
    /\ WantsReadAccess(last.args.caller.access)
    /\ last.args.path = PathA
    /\ last.ret.ret
    /\ reports = <<>>

\* the access the call asks the policy for: the caller's for the fully
\* resolved path, GENERIC_READ for any other hop
AccessOfHop ==
    IF last.args.isFullyResolvedPath THEN last.args.caller.access ELSE {"GENERIC_READ"}

\* what holds: an enforced hop that asks for an access is reported once,
\* denied or not, unless it was denied on a path with an invalid name; a
\* hop that is not enforced is never reported; the reports of a chain carry
\* ReparsePointTargetCached when the chain was replayed from the cache and
\* ReparsePointTarget when it was resolved by the call
C26_EnforcedHopIsReportedAndTagged ==
    /\ last.op = "EnforceReparsePointAccess" =>
          /\ (last.args.enforceAccess /\ AsksForAccess(AccessOfHop)
                 /\ last.ret.accessCheck.Validity # "Invalid") =>
                /\ Len(reports) = 1
                /\ reports[1].Path = last.args.path
                /\ reports[1].Denied = ~last.ret.ret
                /\ reports[1].Operation = "ReparsePointTarget"
          /\ ~last.args.enforceAccess => (reports = <<>> /\ last.ret.ret)
    /\ (last.op = "EnforceChainOfReparsePointAccesses" /\ walk.pc # "idle") =>
          \A i \in 1..Len(reports) :
              reports[i].Operation = IF walk.cached THEN "ReparsePointTargetCached"
                                     ELSE "ReparsePointTarget"

\* a replayed chain with a denied hop: three reports tagged as cached
C26_CachedChainIsTagged ==
    /\ ChainEnforced
    /\ walk.cached
    /\ Len(reports) = 3
    /\ reports[2].Denied
    /\ reports[1].Operation = "ReparsePointTargetCached"


(***************************************************************************)
(* A chain enforced by a fresh walk and then replayed from the cache.      *)
(***************************************************************************)
MaxReplay == 2

PathS == Root(<<"S">>)

\* the file system of Init with C:\S, a directory link to ".", the
\* directory that holds it
ReplayFs == (FsKey(PathS) :> SymlinkTo(<<".">>, TRUE)) @@ InitialFs

ReplayPaths == {PathA, PathL, Below(PathD, <<"X">>), Below(PathS, <<"S">>)}

\* the callers with no status cell or with a cell that holds 0
ReplayCallers == {caller \in Callers : caller.pNtStatus \in {nullptr, PointerTo(0)}}

\* manifests that deny nothing, or the middle of the chain of C:\A
ReplayDenySets == {{}, {PathB}}

NoReplay == [op |-> "none", path |-> <<>>, caller |-> <<>>, preserveLast |-> FALSE,
             walk |-> IdleWalk, reports |-> <<>>, io |-> NoIo, before |-> EmptyCache]

\* one whole call of EnforceChainOfReparsePointAccesses(path,
\* INVALID_HANDLE_VALUE, ...) with the arguments of `caller`; the call
\* before it is remembered
Call_EnforceChainAndReturn(path, caller, preserveLast) ==
    /\ ops < MaxReplay
    /\ Let(EnforceChainOfReparsePointAccesses(
               cache, Canonicalize(path), INVALID_HANDLE_VALUE, caller.access,
               caller.share, caller.disposition, caller.attrs,
               PolicyResult_Initialize(path), caller.pNtStatus, TRUE,
               caller.isCreateDirectory, TRUE, preserveLast, DeviceOk),
           LAMBDA en :
       /\ en.returned
       /\ ops' = ops + 1
       /\ cache' = en.cache
       /\ reports' = en.reports
       /\ last' = [op |-> "EnforceChainOfReparsePointAccesses", path |-> path,
                   caller |-> caller, preserveLast |-> preserveLast,
                   walk |-> en.walk, reports |-> en.reports, io |-> en.io,
                   before |-> cache]
       /\ memo' = IF ops = 0 THEN NoReplay ELSE last
       /\ UNCHANGED <<fs, flags, manifest, walk>>)

InitReplay ==
    /\ fs = ReplayFs
    /\ cache = EmptyCache
    /\ flags \in {Flags(FALSE, FALSE), Flags(FALSE, TRUE)}
    /\ \E paths \in ReplayDenySets : manifest = Denying(paths)
    /\ walk = IdleWalk
    /\ reports = <<>>
    /\ last = NoReplay
    /\ memo = NoReplay
    /\ ops = 0

NextReplay ==
    \E path \in ReplayPaths : \E caller \in ReplayCallers : \E preserveLast \in BOOLEAN :
        Call_EnforceChainAndReturn(path, caller, preserveLast)

SpecReplay == InitReplay /\ [][NextReplay]_vars

\* the last call replayed the chain that the call before it, made with the
\* same arguments, had resolved
ReplayOfFreshCall ==
    /\ last.op = "EnforceChainOfReparsePointAccesses"
    /\ memo.op = "EnforceChainOfReparsePointAccesses"
    /\ last.walk.cached /\ ~memo.walk.cached
    /\ last.path = memo.path
    /\ last.preserveLast = memo.preserveLast
    /\ last.caller = memo.caller

WithoutContextName(sent) == [i \in 1..Len(sent) |-> [sent[i] EXCEPT !.Operation = ""]]

\* C27: a call served from the chain cache enforces the same hops in the
\* same order with the same fully-resolved tag, yields the same resolved
\* path and the same result as the fresh call with the same arguments
\* before it, and its reports differ from the fresh ones in the context
\* name only.
C27_ReplayEqualsFreshCall ==
    ReplayOfFreshCall =>
        /\ last.walk.order = memo.walk.order
        /\ last.walk.resolvedPaths = memo.walk.resolvedPaths
        /\ last.walk.resolvedPath = memo.walk.resolvedPath
        /\ last.walk.success = memo.walk.success
        /\ WithoutContextName(last.reports) = WithoutContextName(memo.reports)
        /\ \A i \in 1..Len(last.reports) :
              /\ last.reports[i].Operation = "ReparsePointTargetCached"
              /\ memo.reports[i].Operation = "ReparsePointTarget"

\* what holds: the replay equals the fresh call whenever no path occurs
\* twice in the chain
C27_ReplayEqualsFreshCallOfDistinctHops ==
    (ReplayOfFreshCall
        /\ \A i, j \in 1..Len(memo.walk.order) :
               SameKey(memo.walk.order[i], memo.walk.order[j]) => i = j) =>
        /\ last.walk.order = memo.walk.order
        /\ last.walk.resolvedPaths = memo.walk.resolvedPaths
        /\ last.walk.resolvedPath = memo.walk.resolvedPath
        /\ last.walk.success = memo.walk.success
        /\ WithoutContextName(last.reports) = WithoutContextName(memo.reports)

\* the denied chain of C:\A replayed: three hops, denied both times
C27_ReplayOfDeniedChain ==
    /\ ReplayOfFreshCall
    /\ last.path = PathA
    /\ Len(last.walk.order) = 3 /\ Len(last.reports) = 3
    /\ ~last.walk.success /\ ~memo.walk.success

\* C:\S\S in preserve-last mode: the fresh call returns the resolved path
\* C:\S, its replay returns none
C27_ReplayLosesResolvedPath ==
    /\ ReplayOfFreshCall
    /\ last.path = Below(PathS, <<"S">>)
    /\ last.preserveLast
    /\ memo.walk.order = <<PathS, PathS>>
    /\ memo.walk.resolvedPath = PathS
    /\ last.walk.resolvedPath = <<>>


(***************************************************************************)
(* The preserve-last mode of ResolveAllReparsePointsAndEnforceAccess,      *)
(* under SpecReplay.                                                       *)
(***************************************************************************)
\* the last call ran ResolveAllReparsePointsAndEnforceAccess in preserve-last
\* mode (nothing was replayed from the cache)
FreshPreserveLast ==
    /\ last.op = "EnforceChainOfReparsePointAccesses"
    /\ last.preserveLast
    /\ last.walk.fn = "ResolveAll"
    /\ ~last.walk.cached

\* the name after the last separator of path
LastComponent(path) == substrFrom(path, find_last_of(path, "\\", npos) + 1)

\* the hops of the chain before the last one
EarlierHops(order) == {order[i] : i \in 1..(Len(order) - 1)}

\* the last component is kept as named and the path that ends in it is the
\* last hop and the resolved path returned
LastComponentIsKept ==
    /\ last.walk.order # <<>>
    /\ last.walk.resolvedPath = last.walk.order[Len(last.walk.order)]
    /\ LastComponent(last.walk.resolvedPath) = LastComponent(last.path)

\* the directories on the way to path: its prefixes that end before a
\* separator, the root excluded
DirectoryPrefixes(path) ==
    {SubSeq(path, 1, i) : i \in {j \in 4..(Len(path) - 1) : path[j + 1] = "\\"}}

\* the hops before the last one are reparse points in directory components:
\* each is a link, was enforced as an intermediate hop and substituted by
\* its target, so that no directory of the resolved path is a reparse point
DirectoryHopsAreSubstituted ==
    /\ \A i \in 1..(Len(last.walk.order) - 1) :
          /\ OsNode(fs, last.walk.order[i]).tag = IO_REPARSE_TAG_SYMLINK
          /\ MapAt(last.walk.resolvedPaths, last.walk.order[i]) = Intermediate
          /\ last.reports[i].Path = last.walk.order[i]
          /\ last.reports[i].FlagsAndAttributes =
                 {"FILE_FLAG_OPEN_REPARSE_POINT", "FILE_FLAG_BACKUP_SEMANTICS"}
    /\ \A dir \in DirectoryPrefixes(last.walk.resolvedPath) :
          OsNode(fs, dir).tag = 0

\* the last hop is enforced with the arguments of the caller; a caller that
\* asks for neither reading nor writing has nothing reported for it
LastHopIsEnforcedAsFullyResolved ==
    IF WantsWriteAccess(last.caller.access) \/ WantsReadAccess(last.caller.access)
    THEN /\ Len(last.reports) = Len(last.walk.order)
         /\ last.reports[Len(last.reports)].Path = last.walk.resolvedPath
         /\ last.reports[Len(last.reports)].DesiredAccess = last.caller.access
         /\ last.reports[Len(last.reports)].FlagsAndAttributes = last.caller.attrs
    ELSE Len(last.reports) \in {Len(last.walk.order) - 1, Len(last.walk.order)}

\* the path that ends in the last component was not queried for a target:
\* the only queries issued are those of directory components, and the call
\* leaves no target memo for it unless it also was a directory component
LastComponentIsNotQueried ==
    /\ last.io.open <= Len(last.walk.order) - 1 + Len(SplitPath(last.walk.resolvedPath).tokens)
    /\ (\/ CacheKey(last.walk.resolvedPath) \notin DOMAIN cache.target
        \/ CacheKey(last.walk.resolvedPath) \in DOMAIN last.before.target
        \/ \E hop \in EarlierHops(last.walk.order) : SameKey(hop, last.walk.resolvedPath))

\* C28: in preserve-last mode ResolveAllReparsePointsAndEnforceAccess never
\* follows the last path component: reparse points in directory components
\* are substituted and enforced, the final component is kept as named and is
\* not queried for a target, and the path ending in it is the one tagged
\* FullyResolved and returned as the resolved path, even when it is itself a
\* reparse point.
C28_PreserveLastKeepsLastComponent ==
    FreshPreserveLast =>
        /\ LastComponentIsKept
        /\ DirectoryHopsAreSubstituted
        /\ LastComponentIsNotQueried
        /\ MapAt(last.walk.resolvedPaths, last.walk.resolvedPath) = FullyResolved
        /\ LastHopIsEnforcedAsFullyResolved

\* what holds: everything but the tag, which is FullyResolved only when the
\* path that ends in the last component was not a hop before
C28_PreserveLastKeepsLastComponentUntagged ==
    FreshPreserveLast =>
        /\ LastComponentIsKept
        /\ DirectoryHopsAreSubstituted
        /\ LastComponentIsNotQueried
        /\ (MapAt(last.walk.resolvedPaths, last.walk.resolvedPath) = FullyResolved
              <=> \A hop \in EarlierHops(last.walk.order) :
                      ~SameKey(hop, last.walk.resolvedPath))
        /\ LastHopIsEnforcedAsFullyResolved

\* C:\D\X in preserve-last mode: the directory link C:\D is substituted, the
\* link X is kept and C:\E\X is the resolved path, tagged FullyResolved
C28_DirectoryLinkFollowedLastLinkKept ==
    /\ FreshPreserveLast
    /\ last.path = Below(PathD, <<"X">>)
    /\ last.walk.order = <<PathD, Below(PathE, <<"X">>)>>
    /\ last.walk.resolvedPath = Below(PathE, <<"X">>)
    /\ OsNode(fs, last.walk.resolvedPath).tag = IO_REPARSE_TAG_SYMLINK
    /\ MapAt(last.walk.resolvedPaths, last.walk.resolvedPath) = FullyResolved

\* C:\S\S in preserve-last mode: C:\S is the resolved path and the last hop,
\* and its tag is Intermediate
C28_LastHopTaggedIntermediate ==
    /\ FreshPreserveLast
    /\ last.path = Below(PathS, <<"S">>)
    /\ last.walk.resolvedPath = PathS
    /\ MapAt(last.walk.resolvedPaths, PathS) = Intermediate


(***************************************************************************)
(* The level from which on full reparse point parsing is enforced:         *)
(* ShouldResolveReparsePointsInPath and the first pass of                  *)
(* ResolveAllReparsePointsAndEnforceAccess.                                *)
(***************************************************************************)
MaxDepthCalls == 2

DepthPaths == {PathT, Below(PathE, <<"Y">>), Below(PathE, <<"X">>), Below(PathD, <<"X">>), Below(PathD, <<"Y">>)}

\* full resolving everywhere, or ignored but for the scopes of the manifest
DepthConfigurations ==
    {<<Flags(FALSE, FALSE), Scopes({})>>}
    \cup {<<Flags(FALSE, TRUE), Scopes({scope})>> :
             scope \in {PathT, PathE, PathD, Below(PathE, <<"Y">>), Below(PathE, <<"X">>), Below(PathD, <<"X">>)}}

DepthCaller == Caller({"GENERIC_READ"}, {"FILE_SHARE_READ"}, "OPEN_EXISTING", {"FILE_ATTRIBUTE_NORMAL"}, nullptr, FALSE, FALSE)

NoDepthCall == [op |-> "none", path |-> <<>>, preserveLast |-> FALSE, level |-> 0,
                loop |-> FALSE, ret |-> FALSE, before |-> EmptyCache,
                firstPass |-> EmptyCache]

\* ShouldResolveReparsePointsInPath(path, dwFlagsAndAttributes, policyResult)
\* with the policy of path
Call_ShouldResolveReparsePointsInPath(path) ==
    /\ ops < MaxDepthCalls
    /\ Let(PolicyResult_Initialize(path), LAMBDA policyResult :
       Let(ShouldResolveReparsePointsInPath(cache, Canonicalize(path), DepthCaller.attrs,
                                            policyResult, DeviceOk), LAMBDA r :
       /\ ops' = ops + 1
       /\ cache' = r.cache
       /\ last' = [op |-> "ShouldResolveReparsePointsInPath", path |-> path,
                   preserveLast |-> FALSE,
                   level |-> GetLevelToEnableFullReparsePointParsing(policyResult),
                   loop |-> /\ ~IgnoreFullReparsePointResolvingForPath(policyResult)
                            /\ ~PathCache_GetResolvingCheckResult(
                                    cache, Canonicalize(path), policyResult).Found,
                   ret |-> r.ret, before |-> cache, firstPass |-> r.cache]
       /\ UNCHANGED <<fs, flags, manifest, walk, reports, memo>>))

\* EnforceChainOfReparsePointAccesses(path, ...) with the policy of path;
\* when it runs ResolveAllReparsePointsAndEnforceAccess, the cache after the
\* first round of its loop is remembered
Call_ResolveAllReparsePointsAndEnforceAccess(path, preserveLast) ==
    /\ ops < MaxDepthCalls
    /\ Let(PolicyResult_Initialize(path), LAMBDA policyResult :
       Let(EnforceChainOfReparsePointAccesses(
               cache, Canonicalize(path), INVALID_HANDLE_VALUE, DepthCaller.access,
               DepthCaller.share, DepthCaller.disposition, DepthCaller.attrs,
               policyResult, nullptr, TRUE, FALSE, TRUE, preserveLast, DeviceOk),
           LAMBDA en :
       Let(en.walk.fn = "ResolveAll" /\ ~en.walk.cached, LAMBDA walked :
       /\ en.returned
       /\ ops' = ops + 1
       /\ cache' = en.cache
       /\ reports' = en.reports
       /\ last' = [op |-> "ResolveAllReparsePointsAndEnforceAccess", path |-> path,
                   preserveLast |-> preserveLast,
                   level |-> GetLevelToEnableFullReparsePointParsing(policyResult),
                   loop |-> walked, ret |-> en.walk.success, before |-> cache,
                   firstPass |->
                       IF walked
                       THEN ResolveAllIteration(
                                cache,
                                NewWalk("ResolveAll", Canonicalize(path),
                                        INVALID_HANDLE_VALUE, DepthCaller.access,
                                        DepthCaller.share, DepthCaller.disposition,
                                        DepthCaller.attrs, policyResult, nullptr, TRUE,
                                        FALSE, TRUE, preserveLast),
                                DeviceOk).cache
                       ELSE cache]
       /\ UNCHANGED <<fs, flags, manifest, walk, memo>>)))

InitDepth ==
    /\ fs = InitialFs
    /\ cache = EmptyCache
    /\ \E cfg \in DepthConfigurations : flags = cfg[1] /\ manifest = cfg[2]
    /\ walk = IdleWalk
    /\ reports = <<>>
    /\ last = NoDepthCall
    /\ memo = NoCall
    /\ ops = 0

NextDepth ==
    \/ \E path \in DepthPaths : Call_ShouldResolveReparsePointsInPath(path)
    \/ \E path \in DepthPaths : \E preserveLast \in BOOLEAN :
           Call_ResolveAllReparsePointsAndEnforceAccess(path, preserveLast)

SpecDepth == InitDepth /\ [][NextDepth]_vars

\* the prefix of path at a level: C: is level 0, C:\E is level 1, ...
PrefixAt(path, level) == JoinComponents(SubSeq(Components(path, 1, <<>>), 1, level + 1))

\* the level of the full path
LevelOf(path) == Len(Components(path, 1, <<>>)) - 1

\* the paths that the last call, on its first pass, asked for being a reparse
\* point and had not asked for before
Queried == DOMAIN last.firstPass.check \ DOMAIN last.before.check

\* the query of the prefix at a level finds a reparse point to follow
FindsReparsePoint(path, level) ==
    IsActionableReparsePointType(OsNode(fs, PrefixAt(path, level)).tag)

\* the last call walked the levels of its path with the level of its policy
WalkedWithLevel ==
    /\ last.op \in {"ShouldResolveReparsePointsInPath",
                    "ResolveAllReparsePointsAndEnforceAccess"}
    /\ last.loop

\* no path is asked for but a prefix of the path at or above the level
NothingBelowLevelIsQueried ==
    \A key \in Queried :
        \E level \in last.level..LevelOf(last.path) :
            key = CacheKey(PrefixAt(last.path, level))

\* the prefix at a level was asked for in the last call or before it
WasQueried(level) == CacheKey(PrefixAt(last.path, level)) \in DOMAIN last.firstPass.check

IsToBeQueried(level) ==
    /\ level >= last.level
    /\ \A below \in last.level..(level - 1) :
          \/ below = 0 /\ last.op = "ResolveAllReparsePointsAndEnforceAccess"
          \/ ~FindsReparsePoint(last.path, below)
    /\ last.op = "ResolveAllReparsePointsAndEnforceAccess" => level > 0
    /\ last.preserveLast => level < LevelOf(last.path)

C29_StopsAtFirstReparsePoint ==
    /\ WalkedWithLevel
    /\ last.op = "ShouldResolveReparsePointsInPath"
    /\ last.before = EmptyCache
    /\ last.path = Below(PathD, <<"X">>)
    /\ last.level = 0
    /\ last.ret
    /\ Queried = {CacheKey(<<"C", ":">>), CacheKey(PathD)}

\* the level is 1 and no prefix is a reparse point: C:\E and C:\E\Y are
\* asked for by both functions, C: by neither
C29_EveryLevelFromOne ==
    /\ WalkedWithLevel
    /\ last.before = EmptyCache
    /\ last.path = Below(PathE, <<"Y">>)
    /\ last.level = 1
    /\ ~last.preserveLast
    /\ Queried = {CacheKey(PathE), CacheKey(Below(PathE, <<"Y">>))}


(***************************************************************************)
(* The composition of a prefix and a relative target, under SpecPure.      *)
(***************************************************************************)
\* the index after the leading ".\" and "..\" segments of a relative target
RECURSIVE AfterLeadingDots(_, _)
AfterLeadingDots(relativeTarget, pos) ==
    IF StartWithDotSlash(relativeTarget, pos, Len(relativeTarget) - pos)
    THEN AfterLeadingDots(relativeTarget, pos + 2)
    ELSE IF StartWithDotDotSlash(relativeTarget, pos, Len(relativeTarget) - pos)
    THEN AfterLeadingDots(relativeTarget, pos + 3)
    ELSE pos

\* prefix without the separator at its end, if it has one
WithoutEndingSeparator(prefix) ==
    IF prefix # <<>> /\ prefix[Len(prefix)] = "\\"
    THEN SubSeq(prefix, 1, Len(prefix) - 1) ELSE prefix

\* prefix without its last `count` components and the separators before
\* them
WithoutLastComponents(prefix, count) ==
    LET separators == {i \in 1..Len(prefix) : prefix[i] = "\\"}
        cut == CHOOSE i \in separators :
                   Cardinality({j \in separators : j >= i}) = count
    IN  SubSeq(prefix, 1, cut - 1)

\* what is left of the prefix: the reparse point is removed, and one more
\* component for each leading "..\" of the target
KeptPrefix ==
    WithoutLastComponents(WithoutEndingSeparator(last.args.result),
                          1 + LeadingDotDots(last.args.relativeTarget, 0))

\* what is left of the target after its leading ".\" and "..\" segments
RemainingSuffix ==
    substrFrom(last.args.relativeTarget, AfterLeadingDots(last.args.relativeTarget, 0))

\* C30: for a prefix that ends at the symlink and a relative target with no
\* more "..\" than the prefix has directories above that of the symlink,
\* TryResolveRelativeTarget removes the last component of the prefix, one
\* further component for each leading "..\" of the target and nothing for a
\* leading ".\", and appends the rest of the target after a single
\* separator; a separator at the end of the prefix is ignored.  With atom
\* lists the result is the prefix that is left.
C30_ComposesPrefixAndTarget ==
    (Resolver /\ ~TooManyDotDots) =>
        /\ last.ret.ok
        /\ last.ret.result = IF last.args.withLists THEN KeptPrefix
                             ELSE (KeptPrefix \o <<"\\">>) \o RemainingSuffix

\* C:\P\D\A\ with .\..\T\X is C:\P\T\X
C30_Witness ==
    /\ Resolver
    /\ ~last.args.withLists
    /\ last.args.result = <<"C", ":", "\\", "P", "\\", "D", "\\", "A", "\\">>
    /\ last.args.relativeTarget = <<".", "\\", ".", ".", "\\", "T", "\\", "X">>
    /\ last.ret.ok
    /\ last.ret.result = <<"C", ":", "\\", "P", "\\", "T", "\\", "X">>

\* C:\P\D with ..\.\X is C:\X: a ".\" after a "..\" is skipped as well
C30_WitnessDotAfterDotDot ==
    /\ Resolver
    /\ ~last.args.withLists
    /\ last.args.result = <<"C", ":", "\\", "P", "\\", "D">>
    /\ last.args.relativeTarget = <<".", ".", "\\", ".", "\\", "X">>
    /\ last.ret.ok
    /\ last.ret.result = <<"C", ":", "\\", "X">>


(***************************************************************************)
(* A prefix that is a directory symlink with a rooted target, under        *)
(* SpecRepo.                                                               *)
(***************************************************************************)
\* source is a directory symlink whose target is written from the root
SourceIsRootedDirectorySymlink ==
    /\ SourceIsDirectorySymlink
    /\ GetRootLength(fs[FsKey(RepoSource)].printName) > 0

\* the path that the loop over the prefixes of repo\source\<link> rebuilds
RebuiltPath(link) ==
    ResolvePrefixes(cache, <<>>, <<>>, SplitPathsReverse(Below(RepoSource, link), <<>>),
                    PolicyResult_Initialize(Below(RepoSource, link)), DeviceOk, NoIo,
                    MaxAtoms).result

\* the path does not go through repo\source
NothingOfSourceRemains(path) == ~IsPathPrefix(RepoSource, path)

\* C31: when the prefix repo\source is a directory symlink whose target is
\* rooted, the full-chain resolver discards what it has accumulated and
\* restarts from the components of the target: the path rebuilt is the
\* target followed by the component not yet processed (the link), nothing
\* of repo\source remains in it, and the relative target of the link is
\* composed with that path.
C31_RootedTargetRestartsTheWalk ==
    SourceIsRootedDirectorySymlink =>
        \A link \in {Symlink1, Symlink2} :
            (NextPathOf(Below(RepoSource, link)) /\ last.status) =>
                /\ RebuiltPath(link) = Below(fs[FsKey(RepoSource)].printName, link)
                /\ NothingOfSourceRemains(RebuiltPath(link))
                /\ NothingOfSourceRemains(last.target)
                /\ last.target =
                       TryResolveRelativeTargetSimple(
                           Below(RepoCurrent, link),
                           fs[FsKey(Below(RepoCurrent, link))].printName,
                           <<>>, <<>>, FALSE).result

\* repo\source ==> C:\P\N\C: the next path of repo\source\symlink1.link is
\* repo\target\file1.txt
C31_Witness ==
    /\ SourceIsRootedDirectorySymlink
    /\ NextPathOf(Below(RepoSource, Symlink1))
    /\ last.status
    /\ RebuiltPath(Symlink1) = Below(RepoCurrent, Symlink1)
    /\ last.target = Below(RepoTarget, File1)


(***************************************************************************)
(* Detoured_NtCreateFile and Detoured_ZwCreateFile, which differ in the    *)
(* name of the real function only.  The caller opens an object that        *)
(* exists (FILE_OPEN, FILE_OVERWRITE), so the file system is not changed.  *)
(***************************************************************************)
MaxNtCreate == 2

\* the name resolution of an open, as the remarks of TryResolveRelativeTarget
\* describe it: a directory symlink in the prefix is replaced by its target,
\* a junction in the prefix stays in place, and a relative target is combined
\* with the path so obtained; the key of the object opened, or <<>>
RECURSIVE OpenWalk(_, _, _, _, _)
OpenWalk(files, done, todo, followLast, fuel) ==
    IF todo = <<>>
    THEN Let(OsObject(files, JoinComponents(done)), LAMBDA key :
             IF key \in DOMAIN files THEN key ELSE <<>>)
    ELSE LET here == Append(done, todo[1])
             key  == OsObject(files, JoinComponents(here))
             rest == SubSeq(todo, 2, Len(todo))
         IN  IF Len(here) = 1 THEN OpenWalk(files, here, rest, followLast, fuel)
             ELSE IF key \notin DOMAIN files THEN <<>>
             ELSE IF \/ files[key].tag = IO_REPARSE_TAG_SYMLINK /\ (rest # <<>> \/ followLast)
                     \/ files[key].tag = IO_REPARSE_TAG_MOUNT_POINT /\ rest = <<>> /\ followLast
                  THEN IF fuel = 0 THEN <<>>
                       ELSE LET t == files[key].substituteName
                                base == IF GetRootLength(t) > 0
                                        THEN Components(t, 1, <<>>)
                                        ELSE done \o Components(t, 1, <<>>)
                            IN  OpenWalk(files, <<>>, CollapseDots(base, <<>>) \o rest,
                                         followLast, fuel - 1)
                  ELSE OpenWalk(files, here, rest, followLast, fuel)

\* Real_NtCreateFile / Real_CreateFileW of an existing object: the handle,
\* which is the key of the object opened, or INVALID_HANDLE_VALUE
Real_OpenExisting(files, path, openReparsePoint) ==
    OpenWalk(files, <<>>, CollapseDots(Components(path, 1, <<>>), <<>>),
             ~openReparsePoint, MaxFollow)

StatusSuccess == 0

\* 0xC0000034, the status of an open of a name that does not exist
StatusObjectNameNotFound == 0 - 1073741772

DETOURS_STATUS_ACCESS_DENIED == 0 - 1073741790

NT_SUCCESS(status) == status >= 0

\* the global flags of the manifest that the model keeps fixed
MonitorNtCreateFile == TRUE

ForceReadOnlyForRequestedReadWrite == FALSE

MapNtCreateOptionsToWin32FileFlags(createOptions) ==
    (IF "FILE_OPEN_FOR_BACKUP_INTENT" \in createOptions
        /\ "FILE_NON_DIRECTORY_FILE" \notin createOptions
     THEN {"FILE_FLAG_BACKUP_SEMANTICS"} ELSE {})
    \cup (IF "FILE_DELETE_ON_CLOSE" \in createOptions
          THEN {"FILE_FLAG_DELETE_ON_CLOSE"} ELSE {})
    \cup (IF "FILE_OPEN_REPARSE_POINT" \in createOptions
          THEN {"FILE_FLAG_OPEN_REPARSE_POINT"} ELSE {})

MapNtCreateDispositionToWin32Disposition(ntDisposition) ==
    CASE ntDisposition = "FILE_CREATE" -> "CREATE_NEW"
      [] ntDisposition = "FILE_OVERWRITE_IF" -> "CREATE_ALWAYS"
      [] ntDisposition = "FILE_OPEN" -> "OPEN_EXISTING"
      [] ntDisposition = "FILE_OPEN_IF" -> "OPEN_ALWAYS"
      [] ntDisposition \in {"FILE_OVERWRITE", "FILE_SUPERSEDE"} -> "TRUNCATE_EXISTING"
      [] OTHER -> "0"

CheckIfNtCreateMayDeleteFile(createOptions, access) ==
    "FILE_DELETE_ON_CLOSE" \in createOptions \/ "DELETE" \in access

CheckIfNtCreateDispositionImpliesWriteOrDelete(ntDisposition) ==
    ntDisposition \in {"FILE_OVERWRITE_IF", "FILE_OVERWRITE", "FILE_SUPERSEDE"}

CheckIfNtCreateFileOptionsExcludeOpeningFiles(createOptions) ==
    "FILE_DIRECTORY_FILE" \in createOptions

\* InvalidateReparsePointCacheIfNeeded
InvalidateReparsePointCacheIfNeeded(c, pathContainsReparsePoints, desiredAccess, flagsAndAttributes, isDirectory, path, policyResult) ==
    IF /\ ~pathContainsReparsePoints
       /\ ~IgnoreReparsePoints
       /\ ~IgnoreFullReparsePointResolvingForPath(policyResult)
       /\ WantsWriteAccess(desiredAccess)
       /\ FlagsAndAttributesContainReparsePointFlag(flagsAndAttributes)
    THEN PathCache_Invalidate(c, path, isDirectory, policyResult)
    ELSE c

\* what a detour of an open hands back: the value it returns, *FileHandle
\* (or the handle returned), the last error, the handle the real function
\* returned, how often the real function was called, how often that handle
\* was closed, whether an overlay was registered for it, the status cell
\* handed to the chain enforcement and the return statement taken
OpenOutcome(status, fileHandle, lastError, opened, realCalls, closes, overlay, c, sent, cell, exit) ==
    [status |-> status, fileHandle |-> fileHandle, lastError |-> lastError,
     opened |-> opened, realCalls |-> realCalls, closes |-> closes,
     overlay |-> overlay, cache |-> c, reports |-> sent, cell |-> cell, exit |-> exit,
     returned |-> TRUE]

\* the part of Detoured_NtCreateFile after Real_NtCreateFile has succeeded
\* with *FileHandle = handle
NtCreateFileOpened(c, path, request, policyResult, writeCheck, handle, sent, ntStatus, lastError0, dev) ==
    LET win32Disposition == MapNtCreateDispositionToWin32Disposition(request.CreateDisposition)
        win32Options == MapNtCreateOptionsToWin32FileFlags(request.CreateOptions)
        isDirectoryCreation ==
            CheckIfNtCreateFileOptionsExcludeOpeningFiles(request.CreateOptions)
        sharedAccess == request.ShareAccess \cup {"FILE_SHARE_DELETE"}
        isHandleToReparsePoint == "FILE_OPEN_REPARSE_POINT" \in request.CreateOptions
        OpenedDirectory ==
            IsHandleOrPathToDirectory(
                handle, path,
                ShouldTreatDirectoryReparsePointAsFile(request.DesiredAccess, win32Options,
                                                       policyResult))
        accessCheck ==
            IF ~MonitorNtCreateFile THEN writeCheck
            ELSE IF WantsReadAccess(request.DesiredAccess)
            THEN Combine(writeCheck, CheckReadAccess(policyResult, "Read", OpenedDirectory, TRUE))
            ELSE IF WantsProbeOnlyAccess(request.DesiredAccess)
            THEN Combine(writeCheck, CheckReadAccess(policyResult, "Probe", OpenedDirectory, TRUE))
            ELSE writeCheck
    IN  Let(ShouldResolveReparsePointsInPath(c, policyResult.path, win32Options, policyResult,
                                             dev), LAMBDA sr :
        Let(IF sr.ret
            THEN EnforceChainOfReparsePointAccesses(
                     sr.cache, policyResult.path,
                     IF isHandleToReparsePoint THEN handle ELSE INVALID_HANDLE_VALUE,
                     request.DesiredAccess, sharedAccess, win32Disposition,
                     request.FileAttributes, policyResult, PointerTo(ntStatus), TRUE,
                     isDirectoryCreation, TRUE, isHandleToReparsePoint, dev)
            ELSE [walk |-> IdleWalk, returned |-> TRUE, cache |-> sr.cache,
                  reports |-> <<>>, io |-> NoIo], LAMBDA en :
        IF ~en.returned
        THEN [OpenOutcome(DETOURS_STATUS_ACCESS_DENIED, INVALID_HANDLE_VALUE, lastError0,
                          handle, 1, 1, FALSE, en.cache, sent \o en.reports, nullptr,
                          "chain")
              EXCEPT !.returned = FALSE]
        ELSE IF sr.ret /\ ~en.walk.success
        THEN \* NtClose(*FileHandle); *FileHandle = INVALID_HANDLE_VALUE;
             \* ntStatus = DETOURS_STATUS_ACCESS_DENIED; return ntStatus;
             OpenOutcome(DETOURS_STATUS_ACCESS_DENIED, INVALID_HANDLE_VALUE,
                         en.walk.lastError, handle, 1, 1, FALSE, en.cache,
                         sent \o en.reports, en.walk.ntStatus, "chain")
        ELSE
        Let(InvalidateReparsePointCacheIfNeeded(
                en.cache, sr.ret, request.DesiredAccess, win32Options, OpenedDirectory,
                policyResult.path, policyResult), LAMBDA invalidated :
        Let(IF sr.ret /\ ~IgnoreFullReparsePointResolvingForPath(policyResult)
            THEN <<>>
            ELSE OperationReport("NtCreateFile", accessCheck, policyResult),
            LAMBDA report :
        IF ShouldDenyAccess(accessCheck)
        THEN OpenOutcome(DenialNtStatus(accessCheck), INVALID_HANDLE_VALUE,
                         DenialError(accessCheck), handle, 1, 1, FALSE, invalidated,
                         (sent \o en.reports) \o report, nullptr, "final")
        ELSE OpenOutcome(StatusSuccess, handle, lastError0, handle, 1, 0, TRUE,
                         invalidated, (sent \o en.reports) \o report, nullptr,
                         "return")))))

\* Detoured_NtCreateFile(FileHandle, DesiredAccess, ObjectAttributes of
\* path, ..., FileAttributes, ShareAccess, CreateDisposition, CreateOptions):
\* fileHandle0 is what *FileHandle holds on entry, ntStatus what the local
\* `NTSTATUS ntStatus`, which is not initialized, holds
Detoured_NtCreateFile(c, path, request, fileHandle0, ntStatus, lastError0, dev) ==
    LET win32Options == MapNtCreateOptionsToWin32FileFlags(request.CreateOptions)
        opContext == [Operation |-> "NtCreateFile", DesiredAccess |-> request.DesiredAccess,
                      ShareMode |-> request.ShareAccess,
                      CreationDisposition |->
                          MapNtCreateDispositionToWin32Disposition(request.CreateDisposition),
                      FlagsAndAttributes |-> win32Options]
        start == AccessCheckResult({}, "Allow", "Ignore", "Valid")
    IN  Let(PolicyResult_Initialize(path), LAMBDA initial :
        IF initial.indeterminate
        THEN OpenOutcome(DETOURS_STATUS_ACCESS_DENIED, fileHandle0, ERROR_ACCESS_DENIED,
                         INVALID_HANDLE_VALUE, 0, 0, FALSE, c,
                         <<ReportIndeterminatePolicy(opContext, initial.path)>>, nullptr,
                         "initialize")
        ELSE
        Let(AdjustOperationContextAndPolicyResultWithFullyResolvedPath(
                c, request.DesiredAccess, win32Options, initial, TRUE, dev), LAMBDA adj :
        IF ~adj.ret
        THEN [OpenOutcome(DETOURS_STATUS_ACCESS_DENIED, fileHandle0, ERROR_ACCESS_DENIED,
                          INVALID_HANDLE_VALUE, 0, 0, FALSE, adj.cache, adj.reports,
                          nullptr, "adjust")
              EXCEPT !.returned = adj.returned]
        ELSE
        Let(adj.policy, LAMBDA policyResult :
        Let(IF /\ \/ WantsWriteAccess(request.DesiredAccess)
                  \/ CheckIfNtCreateDispositionImpliesWriteOrDelete(request.CreateDisposition)
                  \/ CheckIfNtCreateMayDeleteFile(request.CreateOptions,
                                                  request.DesiredAccess)
               /\ ~IsHandleOrPathToDirectory(
                       INVALID_HANDLE_VALUE, path,
                       ShouldTreatDirectoryReparsePointAsFile(
                           request.DesiredAccess, win32Options, policyResult))
            THEN Let(CheckWriteAccess(policyResult), LAMBDA check :
                 IF check.Result # "Allow" /\ ~MonitorNtCreateFile
                    /\ (\/ ~CheckIfNtCreateMayDeleteFile(request.CreateOptions,
                                                         request.DesiredAccess)
                        \/ CheckIfNtCreateFileOptionsExcludeOpeningFiles(
                               request.CreateOptions))
                 THEN start ELSE check)
            ELSE start, LAMBDA writeCheck :
        IF ~ForceReadOnlyForRequestedReadWrite /\ ShouldDenyAccess(writeCheck)
        THEN OpenOutcome(DenialNtStatus(writeCheck), fileHandle0, DenialError(writeCheck),
                         INVALID_HANDLE_VALUE, 0, 0, FALSE, adj.cache,
                         adj.reports \o OperationReport("NtCreateFile", writeCheck,
                                                        policyResult),
                         nullptr, "write")
        ELSE
        Let(Real_OpenExisting(fs, path, "FILE_OPEN_REPARSE_POINT" \in request.CreateOptions),
            LAMBDA handle :
        IF handle = INVALID_HANDLE_VALUE
        THEN OpenOutcome(StatusObjectNameNotFound, fileHandle0, ERROR_FILE_NOT_FOUND,
                         INVALID_HANDLE_VALUE, 1, 0, FALSE, adj.cache,
                         adj.reports \o OperationReport(
                             "NtCreateFile",
                             IF WantsReadAccess(request.DesiredAccess)
                             THEN Combine(writeCheck,
                                          CheckReadAccess(policyResult, "Read", FALSE, FALSE))
                             ELSE writeCheck,
                             policyResult),
                         nullptr, "real")
        ELSE NtCreateFileOpened(adj.cache, path, request, policyResult, writeCheck, handle,
                                adj.reports, ntStatus, lastError0, dev))))))

\* ObjectAttributes, DesiredAccess, FileAttributes, ShareAccess,
\* CreateDisposition and CreateOptions of a call
NtCreateRequest(DesiredAccess, ShareAccess, CreateDisposition, CreateOptions) ==
    [DesiredAccess |-> DesiredAccess, FileAttributes |-> {"FILE_ATTRIBUTE_NORMAL"},
     ShareAccess |-> ShareAccess, CreateDisposition |-> CreateDisposition,
     CreateOptions |-> CreateOptions]

\* a read, a write, a read that truncates, and a read and write of the
\* reparse point itself
NtCreateRequests ==
    {NtCreateRequest({"GENERIC_READ"}, {"FILE_SHARE_READ"}, "FILE_OPEN", {}),
     NtCreateRequest({"GENERIC_WRITE"}, {}, "FILE_OPEN", {}),
     NtCreateRequest({"GENERIC_READ"}, {}, "FILE_OVERWRITE", {}),
     NtCreateRequest({"GENERIC_READ", "GENERIC_WRITE"}, {}, "FILE_OPEN",
                     {"FILE_OPEN_REPARSE_POINT"})}

\* repo\intermediate\target\file2.txt, which does not exist
RepoMissing == Below(Below(RepoIntermediate, <<"T">>), File2)

NtCreatePaths == {Below(RepoSource, Symlink2), Below(RepoTarget, File2)}

\* manifests that deny nothing, the file of the target directory, the path
\* below intermediate, or the symlink in the current directory
NtCreateDenySets ==
    {{}, {Below(RepoTarget, File2)}, {RepoMissing}, {Below(RepoCurrent, Symlink2)}}

\* what *FileHandle holds before the call
UnsetHandle == <<"?">>

NoOpen == [op |-> "none", path |-> <<>>, request |-> <<>>, ntStatus |-> 0,
           out |-> <<>>, before |-> EmptyCache]

Call_Detoured_NtCreateFile(path, request, ntStatus) ==
    /\ ops < MaxNtCreate
    /\ Let(Detoured_NtCreateFile(cache, path, request, UnsetHandle, ntStatus,
                                 ERROR_SUCCESS, DeviceOk), LAMBDA out :
       /\ out.returned
       /\ ops' = ops + 1
       /\ cache' = out.cache
       /\ reports' = out.reports
       /\ last' = [op |-> "NtCreateFile", path |-> path, request |-> request,
                   ntStatus |-> ntStatus, out |-> out, before |-> cache]
       /\ UNCHANGED <<fs, flags, manifest, walk, memo>>)

InitNtCreate ==
    /\ fs \in RepoLayouts
    /\ cache = EmptyCache
    /\ flags \in {Flags(FALSE, FALSE), Flags(FALSE, TRUE)}
    /\ \E paths \in NtCreateDenySets : manifest = Denying(paths)
    /\ walk = IdleWalk
    /\ reports = <<>>
    /\ last = NoOpen
    /\ memo = <<>>
    /\ ops = 0

NextNtCreate ==
    \E path \in NtCreatePaths : \E request \in NtCreateRequests :
        \E ntStatus \in IndeterminateStatuses :
            Call_Detoured_NtCreateFile(path, request, ntStatus)

SpecNtCreate == InitNtCreate /\ [][NextNtCreate]_vars

\* the last call was denied by the enforcement of the chain of reparse
\* points, after Real_NtCreateFile had returned a handle
ChainEnforcementDenied == last.op = "NtCreateFile" /\ last.out.exit = "chain"

\* the status that the denied hop wrote into the status cell
StatusOfDeniedHop == last.out.cell[1]

DeniedHopWroteStatus ==
    /\ last.out.cell # nullptr
    /\ StatusOfDeniedHop \in {StatusAccessDenied, StatusObjectPathNotFound,
                              StatusObjectNameInvalid}

HandleIsClosedAndInvalidated ==
    /\ last.out.opened # INVALID_HANDLE_VALUE
    /\ last.out.closes = 1
    /\ last.out.fileHandle = INVALID_HANDLE_VALUE
    /\ ~last.out.overlay

\* C32: when the chain enforcement denies an NtCreateFile or ZwCreateFile
\* call, the status returned is the denial status that the denied hop
\* derived from the validity of its path, the handle is closed and
\* *FileHandle is INVALID_HANDLE_VALUE
C32_ChainDenialReturnsStatusOfDeniedHop ==
    ChainEnforcementDenied =>
        /\ DeniedHopWroteStatus
        /\ last.out.status = StatusOfDeniedHop
        /\ HandleIsClosedAndInvalidated

\* what the code does: the status is STATUS_ACCESS_DENIED whatever the hop
\* wrote; the handle is closed once and *FileHandle is INVALID_HANDLE_VALUE
C32_ChainDenialReturnsAccessDenied ==
    ChainEnforcementDenied =>
        /\ last.out.status = StatusAccessDenied
        /\ HandleIsClosedAndInvalidated

\* a hop was denied for a path whose directory does not exist, and the
\* caller is told that access was denied
C32_StatusOfDeniedHopIsLost ==
    /\ ChainEnforcementDenied
    /\ DeniedHopWroteStatus
    /\ StatusOfDeniedHop = StatusObjectPathNotFound
    /\ last.out.status = StatusAccessDenied

\* a hop was denied for a path that exists
C32_DeniedHopOfValidPath ==
    /\ ChainEnforcementDenied
    /\ StatusOfDeniedHop = StatusAccessDenied
    /\ last.out.status = StatusAccessDenied


(***************************************************************************)
(* Detoured_CreateProcessW.  The checks made on the image before the       *)
(* process is created are one step; every pass through the loop that calls *)
(* InternalCreateDetouredProcess is one step, its status and the last      *)
(* error it leaves being drawn.  The substitute process shim is not        *)
(* injected, child processes are monitored, the image does not break away  *)
(* from the job, and IgnoreCreateProcessReport and                         *)
(* IgnoreNonCreateFileReparsePoints are not set.                           *)
(***************************************************************************)
MaxCreateProcess == 2

RETRY_DETOURING_PROCESS_COUNT == 5

ERROR_INVALID_FUNCTION == 1

\* BOOL
FALSE_ == 0

TRUE_ == 1

\* (DWORD)-1 returned as a BOOL, which is an int
INVALID_FILE_ATTRIBUTES == 0 - 1

\* FileOperationContext::CreateForRead(operation, path)
CreateForRead(operation) ==
    [Operation |-> operation, DesiredAccess |-> {"GENERIC_READ"},
     ShareMode |-> {"FILE_SHARE_READ"}, CreationDisposition |-> "OPEN_EXISTING",
     FlagsAndAttributes |-> {"FILE_ATTRIBUTE_NORMAL"}]

\* ExistsAsFile(path)
ExistsAsFile(path) == PathExists(fs, path) /\ ~OsNode(fs, path).dir

\* EnforceChainOfReparsePointAccessesForNonCreateFile(fileOperationContext,
\* policyResult) with the context on noncanonicalPath
EnforceChainOfReparsePointAccessesForNonCreateFile(c, fileOperationContext, noncanonicalPath, policyResult, dev) ==
    LET canonicalPath == Canonicalize(noncanonicalPath)
        nothing == [walk |-> IdleWalk, returned |-> TRUE, cache |-> c, reports |-> <<>>,
                    io |-> NoIo]
    IN  IF IgnoreReparsePoints THEN nothing
        ELSE IF ~IsReparsePoint(canonicalPath, INVALID_HANDLE_VALUE) THEN nothing
        ELSE EnforceChainOfReparsePointAccesses(
                 c, canonicalPath, INVALID_HANDLE_VALUE, fileOperationContext.DesiredAccess,
                 fileOperationContext.ShareMode, fileOperationContext.CreationDisposition,
                 fileOperationContext.FlagsAndAttributes, policyResult, nullptr, TRUE,
                 FALSE, TRUE, FALSE, dev)

\* what the part of Detoured_CreateProcessW before the loop hands on: the
\* statement it left by, the value returned when it returned, the last
\* error, the cache, the reports, and the read check and the policy the
\* loop reports with
ProcessPrologue(exit, ret, lastError, c, sent, readCheck, policyResult, returned) ==
    [exit |-> exit, ret |-> ret, lastError |-> lastError, cache |-> c, reports |-> sent,
     readCheck |-> readCheck, policy |-> policyResult, returned |-> returned]

\* Detoured_CreateProcessW up to `bool retryCreateProcess = true`
CreateProcessW_BeforeLoop(c, imagePath, lastError0, dev) ==
    LET operationContext == CreateForRead("CreateProcess")
        start == AccessCheckResult({}, "Allow", "Ignore", "Valid")
    IN  IF imagePath = <<>>
        THEN ProcessPrologue("loop", TRUE_, lastError0, c, <<>>, start,
                             PolicyResult_Initialize(<<>>), TRUE)
        ELSE
        Let(PolicyResult_Initialize(imagePath), LAMBDA initial :
        IF initial.indeterminate
        THEN ProcessPrologue("initialize", FALSE_, ERROR_ACCESS_DENIED, c,
                             <<ReportIndeterminatePolicy(operationContext, initial.path)>>,
                             start, initial, TRUE)
        ELSE
        Let(AdjustOperationContextAndPolicyResultWithFullyResolvedPath(
                c, operationContext.DesiredAccess, operationContext.FlagsAndAttributes,
                initial, TRUE, dev), LAMBDA adj :
        IF ~adj.ret
        THEN \* return INVALID_FILE_ATTRIBUTES;
             ProcessPrologue("adjust", INVALID_FILE_ATTRIBUTES,
                             IF adj.reports = <<>> THEN lastError0
                             ELSE adj.reports[Len(adj.reports)].Error,
                             adj.cache, adj.reports, start, initial, adj.returned)
        ELSE
        Let(CheckReadAccess(adj.policy, "Read", FALSE, ExistsAsFile(imagePath)),
            LAMBDA readCheck :
        IF ShouldDenyAccess(readCheck)
        THEN ProcessPrologue("read", FALSE_, DenialError(readCheck), adj.cache,
                             adj.reports \o OperationReport("CreateProcess", readCheck,
                                                            adj.policy),
                             readCheck, adj.policy, TRUE)
        ELSE
        Let(EnforceChainOfReparsePointAccessesForNonCreateFile(
                adj.cache, operationContext, adj.opContextPath, adj.policy, dev),
            LAMBDA en :
        IF ~en.returned \/ ~en.walk.success
        THEN ProcessPrologue("chain", FALSE_, en.walk.lastError, en.cache,
                             adj.reports \o en.reports, readCheck, adj.policy, en.returned)
        ELSE ProcessPrologue("loop", TRUE_, lastError0, en.cache,
                             adj.reports \o en.reports, readCheck, adj.policy, TRUE)))))

\* the retry that is made whatever the error of the failed detouring is
ShouldRetryDetouring_AnyError(lastError, retryCount) ==
    retryCount < RETRY_DETOURING_PROCESS_COUNT

\* GetLastError() == ERROR_INVALID_FUNCTION && retryCount < RETRY_DETOURING_PROCESS_COUNT
ShouldRetryDetouring(lastError, retryCount) ==
    lastError = ERROR_INVALID_FUNCTION /\ retryCount < RETRY_DETOURING_PROCESS_COUNT

\* the values of CreateDetouredProcessStatus the loop tells apart: success,
\* a failure of the process creation itself, and any failure of detouring
CreateDetouredProcessStatuses == {"Succeeded", "ProcessCreationFailed", "DetouringFailed"}

\* the last error InternalCreateDetouredProcess may leave
CreateProcessErrors == {ERROR_INVALID_FUNCTION, ERROR_FILE_NOT_FOUND, ERROR_ACCESS_DENIED}

\* the images: a chain of links, a file, a link below a directory link, a
\* name that does not exist, and no image path
ProcessImages == {PathA, PathT, Below(PathD, <<"X">>), PathO, <<>>}

ProcessDenySets == {{}, {PathB}, {PathT}, {PathD}}

\* the thread is not in Detoured_CreateProcessW
IdleProcess ==
    [pc |-> "idle", imagePath |-> <<>>, retryCount |-> 0, attempts |-> <<>>,
     ret |-> TRUE_, lastError |-> ERROR_SUCCESS, exit |-> "none",
     readCheck |-> AccessCheckResult({}, "Allow", "Ignore", "Valid")]

\* Detoured_CreateProcessW is called for imagePath and runs up to the loop
Call_Detoured_CreateProcessW(imagePath) ==
    /\ ops < MaxCreateProcess
    /\ memo.pc \in {"idle", "done"}
    /\ Let(CreateProcessW_BeforeLoop(cache, imagePath, ERROR_SUCCESS, DeviceOk), LAMBDA p :
       /\ p.returned
       /\ ops' = ops + 1
       /\ cache' = p.cache
       /\ reports' = p.reports
       /\ memo' = [pc |-> IF p.exit = "loop" THEN "loop" ELSE "done",
                   imagePath |-> imagePath, retryCount |-> 0, attempts |-> <<>>,
                   ret |-> p.ret, lastError |-> p.lastError, exit |-> p.exit,
                   readCheck |-> p.readCheck]
       /\ last' = [op |-> "CreateProcessW", path |-> imagePath, before |-> cache]
       /\ UNCHANGED <<fs, flags, manifest, walk>>)

\* one pass through `while (retryCreateProcess)`: InternalCreateDetouredProcess
\* returns status and leaves lastError
CreateProcessW_LoopStep(status, lastError) ==
    /\ memo.pc = "loop"
    /\ LET attempts == Append(memo.attempts, <<status, lastError>>)
           report == IF memo.imagePath = <<>> THEN <<>>
                     ELSE OperationReport("CreateProcess", memo.readCheck,
                                          [path |-> memo.imagePath])
       IN  IF status = "Succeeded"
           THEN /\ memo' = [memo EXCEPT !.pc = "done", !.attempts = attempts,
                                        !.ret = TRUE_, !.lastError = lastError,
                                        !.exit = "succeeded"]
                /\ reports' = reports \o report
           ELSE IF status = "ProcessCreationFailed"
           THEN /\ memo' = [memo EXCEPT !.pc = "done", !.attempts = attempts,
                                        !.ret = FALSE_, !.lastError = lastError,
                                        !.exit = "creation failed"]
                /\ reports' = reports \o report
           ELSE IF ShouldRetryDetouring(lastError, memo.retryCount)
           THEN \* Sleep(1000); retryCount++; SetLastError(ERROR_SUCCESS); continue
                /\ memo' = [memo EXCEPT !.attempts = attempts,
                                        !.retryCount = memo.retryCount + 1,
                                        !.lastError = ERROR_SUCCESS]
                /\ reports' = reports
           ELSE /\ memo' = [memo EXCEPT !.pc = "done", !.attempts = attempts,
                                        !.ret = FALSE_, !.lastError = ERROR_ACCESS_DENIED,
                                        !.exit = "detouring failed"]
                /\ reports' = reports \o report
    /\ UNCHANGED <<fs, cache, flags, manifest, walk, last, ops>>

InitCreateProcess ==
    /\ fs = InitialFs
    /\ cache = EmptyCache
    /\ flags \in {Flags(FALSE, FALSE), Flags(FALSE, TRUE)}
    /\ \E paths \in ProcessDenySets : manifest = Denying(paths)
    /\ walk = IdleWalk
    /\ reports = <<>>
    /\ last = NoOpen
    /\ memo = IdleProcess
    /\ ops = 0

NextCreateProcess ==
    \/ \E imagePath \in ProcessImages : Call_Detoured_CreateProcessW(imagePath)
    \/ \E status \in CreateDetouredProcessStatuses : \E lastError \in CreateProcessErrors :
          CreateProcessW_LoopStep(status, lastError)

SpecCreateProcess == InitCreateProcess /\ [][NextCreateProcess]_vars

\* the thread runs, Sleep(1000) returns and InternalCreateDetouredProcess
\* returns: a pass through the loop that has begun is completed
SpecCreateProcessFair ==
    SpecCreateProcess
    /\ WF_vars(\E status \in CreateDetouredProcessStatuses :
                  \E lastError \in CreateProcessErrors :
                      CreateProcessW_LoopStep(status, lastError))

InRetryLoop == memo.pc = "loop"

LeftRetryLoop == memo.pc = "done" /\ memo.attempts # <<>>

DetouringFailedWith(attempt, error) == attempt = <<"DetouringFailed", error>>

\* the attempt after which the function returned
LastAttempt == memo.attempts[Len(memo.attempts)]

\* every attempt that was followed by another one failed in detouring with
\* ERROR_INVALID_FUNCTION, and there are at most 5 retries and 6 attempts
RetriesAreBounded ==
    /\ \A i \in 1..(Len(memo.attempts) - 1) :
          DetouringFailedWith(memo.attempts[i], ERROR_INVALID_FUNCTION)
    /\ memo.retryCount <= RETRY_DETOURING_PROCESS_COUNT
    /\ Len(memo.attempts) <= RETRY_DETOURING_PROCESS_COUNT + 1
    /\ InRetryLoop => memo.retryCount = Len(memo.attempts)

\* how the loop is left
LoopResult ==
    LeftRetryLoop =>
        CASE LastAttempt[1] = "Succeeded" -> memo.ret = TRUE_
          [] LastAttempt[1] = "ProcessCreationFailed" ->
                memo.ret = FALSE_ /\ memo.lastError = LastAttempt[2]
          [] LastAttempt[1] = "DetouringFailed" ->
                /\ memo.ret = FALSE_
                /\ memo.lastError = ERROR_ACCESS_DENIED
                /\ \/ LastAttempt[2] # ERROR_INVALID_FUNCTION
                   \/ Len(memo.attempts) = RETRY_DETOURING_PROCESS_COUNT + 1

\* C33: Detoured_CreateProcessW retries only after a detouring failure with
\* ERROR_INVALID_FUNCTION, at most 5 times (6 attempts); when the retries
\* are used up or detouring failed otherwise it returns FALSE with
\* ERROR_ACCESS_DENIED; a failure of the process creation is returned at
\* once with its own last error; and the loop is always left
C33_RetryLoopIsBoundedAndTerminates ==
    /\ [](RetriesAreBounded /\ LoopResult)
    /\ (InRetryLoop ~> LeftRetryLoop)

\* six attempts were made, each failing with ERROR_INVALID_FUNCTION, and
\* the function returned FALSE with ERROR_ACCESS_DENIED
C33_Witness ==
    /\ LeftRetryLoop
    /\ Len(memo.attempts) = RETRY_DETOURING_PROCESS_COUNT + 1
    /\ \A i \in 1..Len(memo.attempts) :
          DetouringFailedWith(memo.attempts[i], ERROR_INVALID_FUNCTION)
    /\ memo.ret = FALSE_
    /\ memo.lastError = ERROR_ACCESS_DENIED

\* a failure of the process creation after two retries is returned with
\* its own error
C33_WitnessCreationFailed ==
    /\ LeftRetryLoop
    /\ Len(memo.attempts) = 3
    /\ LastAttempt = <<"ProcessCreationFailed", ERROR_FILE_NOT_FOUND>>
    /\ memo.ret = FALSE_
    /\ memo.lastError = ERROR_FILE_NOT_FOUND


(***************************************************************************)
(* Detoured_CreateFileW.  The caller opens an object that exists           *)
(* (OPEN_EXISTING), so the file system is not changed; whether the policy  *)
(* asks for the USN of the file and whether the USN can be read is drawn.  *)
(***************************************************************************)
MaxCreateFile == 2

\* (HANDLE)FALSE, the null handle
NULL_HANDLE == <<"NULL">>

\* the calls of CloseHandle that `if (handle != INVALID_HANDLE_VALUE)
\* CloseHandle(handle)` never makes
CloseIfValid_Never(handle) == 0

\* if (handle != INVALID_HANDLE_VALUE) { CloseHandle(handle); }: the
\* number of calls of CloseHandle
CloseIfValid(handle) == IF handle # INVALID_HANDLE_VALUE THEN 1 ELSE 0

\* the part of Detoured_CreateFileW after Real_CreateFileW has returned handle
CreateFileOpened(c, lpFileName, request, policyResult, writeCheck, handle, usn, sent, dev) ==
    LET error == IF handle = INVALID_HANDLE_VALUE THEN ERROR_FILE_NOT_FOUND
                 ELSE ERROR_SUCCESS
        sharedAccess == request.ShareMode \cup {"FILE_SHARE_DELETE"}
        isHandleToReparsePoint ==
            FlagsAndAttributesContainReparsePointFlag(request.FlagsAndAttributes)
        OpenedDirectory ==
            IsHandleOrPathToDirectory(
                handle, lpFileName,
                ShouldTreatDirectoryReparsePointAsFile(
                    request.DesiredAccess, request.FlagsAndAttributes, policyResult))
        readCheck ==
            IF WantsReadAccess(request.DesiredAccess)
            THEN Combine(writeCheck,
                         CheckReadAccess(policyResult, "Read", OpenedDirectory,
                                         handle # INVALID_HANDLE_VALUE))
            ELSE IF WantsProbeOnlyAccess(request.DesiredAccess)
            THEN Combine(writeCheck,
                         CheckReadAccess(policyResult, "Probe", OpenedDirectory,
                                         handle # INVALID_HANDLE_VALUE))
            ELSE writeCheck
        \* reportUsn || checkUsn
        usnWanted == ~OpenedDirectory /\ handle # INVALID_HANDLE_VALUE /\ usn # "untracked"
        accessCheck ==
            IF usnWanted /\ usn = "reported"
            THEN Combine([readCheck EXCEPT !.Level = "ReportExplicit"],
                         [readCheck EXCEPT !.Level = "ReportExplicit"])
            ELSE readCheck
    IN  IF usnWanted /\ usn = "failed"
        THEN OpenOutcome(INVALID_HANDLE_VALUE, INVALID_HANDLE_VALUE, ERROR_ACCESS_DENIED,
                         handle, 1, CloseIfValid(handle), FALSE, c,
                         Append(sent, [Operation |-> "CreateFile", Path |-> policyResult.path,
                                       Denied |-> TRUE, OpenedDirectory |-> FALSE]),
                         nullptr, "usn")
        ELSE
        Let(ShouldResolveReparsePointsInPath(c, policyResult.path, request.FlagsAndAttributes,
                                             policyResult, dev), LAMBDA sr :
        Let(IF sr.ret
            THEN EnforceChainOfReparsePointAccesses(
                     sr.cache, policyResult.path,
                     IF isHandleToReparsePoint THEN handle ELSE INVALID_HANDLE_VALUE,
                     request.DesiredAccess, sharedAccess, request.CreationDisposition,
                     request.FlagsAndAttributes, policyResult, nullptr, TRUE, FALSE, TRUE,
                     isHandleToReparsePoint, dev)
            ELSE [walk |-> IdleWalk, returned |-> TRUE, cache |-> sr.cache,
                  reports |-> <<>>, io |-> NoIo], LAMBDA en :
        IF ~en.returned \/ (sr.ret /\ ~en.walk.success)
        THEN \* CloseHandle(handle); return INVALID_HANDLE_VALUE;
             [OpenOutcome(INVALID_HANDLE_VALUE, INVALID_HANDLE_VALUE, en.walk.lastError,
                          handle, 1, 1, FALSE, en.cache, sent \o en.reports, nullptr,
                          "chain")
              EXCEPT !.returned = en.returned]
        ELSE
        Let(InvalidateReparsePointCacheIfNeeded(
                en.cache, sr.ret, request.DesiredAccess, request.FlagsAndAttributes,
                OpenedDirectory, policyResult.path, policyResult), LAMBDA invalidated :
        Let(IF sr.ret /\ ~IgnoreFullReparsePointResolvingForPath(policyResult)
            THEN <<>>
            ELSE OperationReport("CreateFile", accessCheck, policyResult), LAMBDA report :
        IF ShouldDenyAccess(accessCheck)
        THEN OpenOutcome(INVALID_HANDLE_VALUE, INVALID_HANDLE_VALUE,
                         DenialError(accessCheck), handle, 1, CloseIfValid(handle), FALSE,
                         invalidated, (sent \o en.reports) \o report, nullptr, "final")
        ELSE OpenOutcome(handle, handle, error, handle, 1, 0,
                         handle # INVALID_HANDLE_VALUE, invalidated,
                         (sent \o en.reports) \o report, nullptr, "return")))))

\* Detoured_CreateFileW(lpFileName, dwDesiredAccess, dwShareMode, ...,
\* dwCreationDisposition, dwFlagsAndAttributes, ...); `status` is the handle
\* returned
Detoured_CreateFileW(c, lpFileName, request, usn, lastError0, dev) ==
    LET opContext == [Operation |-> "CreateFile", DesiredAccess |-> request.DesiredAccess,
                      ShareMode |-> request.ShareMode,
                      CreationDisposition |-> request.CreationDisposition,
                      FlagsAndAttributes |-> request.FlagsAndAttributes]
        start == AccessCheckResult({}, "Allow", "Ignore", "Valid")
    IN  Let(PolicyResult_Initialize(lpFileName), LAMBDA initial :
        IF initial.indeterminate
        THEN OpenOutcome(INVALID_HANDLE_VALUE, INVALID_HANDLE_VALUE, ERROR_ACCESS_DENIED,
                         INVALID_HANDLE_VALUE, 0, 0, FALSE, c,
                         <<ReportIndeterminatePolicy(opContext, initial.path)>>, nullptr,
                         "initialize")
        ELSE
        Let(AdjustOperationContextAndPolicyResultWithFullyResolvedPath(
                c, request.DesiredAccess, request.FlagsAndAttributes, initial, TRUE, dev),
            LAMBDA adj :
        IF ~adj.ret
        THEN \* return FALSE;
             [OpenOutcome(NULL_HANDLE, NULL_HANDLE,
                          IF adj.reports = <<>> THEN lastError0
                          ELSE adj.reports[Len(adj.reports)].Error,
                          INVALID_HANDLE_VALUE, 0, 0, FALSE, adj.cache, adj.reports,
                          nullptr, "adjust")
              EXCEPT !.returned = adj.returned]
        ELSE
        Let(IF WantsWriteAccess(request.DesiredAccess) THEN CheckWriteAccess(adj.policy)
            ELSE start, LAMBDA writeCheck :
        IF ~ForceReadOnlyForRequestedReadWrite /\ ShouldDenyAccess(writeCheck)
        THEN OpenOutcome(INVALID_HANDLE_VALUE, INVALID_HANDLE_VALUE,
                         DenialError(writeCheck), INVALID_HANDLE_VALUE, 0, 0, FALSE,
                         adj.cache,
                         adj.reports \o OperationReport("CreateFile", writeCheck, adj.policy),
                         nullptr, "write")
        ELSE CreateFileOpened(
                 adj.cache, lpFileName, request, adj.policy, writeCheck,
                 Real_OpenExisting(
                     fs, lpFileName,
                     FlagsAndAttributesContainReparsePointFlag(request.FlagsAndAttributes)),
                 usn, adj.reports, dev))))

CreateFileRequest(dwDesiredAccess, dwShareMode, dwFlagsAndAttributes) ==
    [DesiredAccess |-> dwDesiredAccess, ShareMode |-> dwShareMode,
     CreationDisposition |-> "OPEN_EXISTING", FlagsAndAttributes |-> dwFlagsAndAttributes]

\* a read, a write, and a read and write of the reparse point itself
CreateFileRequests ==
    {CreateFileRequest({"GENERIC_READ"}, {"FILE_SHARE_READ"}, {"FILE_ATTRIBUTE_NORMAL"}),
     CreateFileRequest({"GENERIC_WRITE"}, {}, {"FILE_ATTRIBUTE_NORMAL"}),
     CreateFileRequest({"GENERIC_READ", "GENERIC_WRITE"}, {},
                       {"FILE_FLAG_OPEN_REPARSE_POINT"})}

\* the policy asks for no USN; it asks for one and TryGetUsn reads it; it
\* asks for one and TryGetUsn fails
UsnOutcomes == {"untracked", "reported", "failed"}

\* a chain of links, a file, a link below a directory link, and a name that
\* does not exist
CreateFilePaths == {PathA, PathT, Below(PathD, <<"X">>), PathO}

Call_Detoured_CreateFileW(lpFileName, request, usn) ==
    /\ ops < MaxCreateFile
    /\ memo.pc \in {"idle", "done"}
    /\ Let(Detoured_CreateFileW(cache, lpFileName, request, usn, ERROR_SUCCESS, DeviceOk),
           LAMBDA out :
       /\ out.returned
       /\ ops' = ops + 1
       /\ cache' = out.cache
       /\ reports' = out.reports
       /\ last' = [op |-> "CreateFileW", path |-> lpFileName, request |-> request,
                   ntStatus |-> 0, out |-> out, before |-> cache]
       /\ UNCHANGED <<fs, flags, manifest, walk, memo>>)

\* a thread that calls CreateFileW and CreateProcessW
NextDetours ==
    \/ \E lpFileName \in CreateFilePaths : \E request \in CreateFileRequests :
          \E usn \in UsnOutcomes : Call_Detoured_CreateFileW(lpFileName, request, usn)
    \/ \E imagePath \in ProcessImages : Call_Detoured_CreateProcessW(imagePath)
    \/ \E status \in CreateDetouredProcessStatuses : \E lastError \in CreateProcessErrors :
          CreateProcessW_LoopStep(status, lastError)

SpecDetours == InitCreateProcess /\ [][NextDetours]_vars

\* the last call was Detoured_CreateFileW, and AdjustOperationContextAnd-
\* PolicyResultWithFullyResolvedPath failed in it
AdjustFailedInCreateFileW == last.op = "CreateFileW" /\ last.out.exit = "adjust"

\* Detoured_CreateProcessW has returned because the adjustment failed
AdjustFailedInCreateProcessW == memo.pc = "done" /\ memo.exit = "adjust"

\* C37: when the adjustment to the fully resolved path fails in a detour,
\* the detour returns the failure value of its API and the real function is
\* not called: Detoured_CreateFileW returns INVALID_HANDLE_VALUE,
\* Detoured_CreateProcessW returns FALSE
C37_AdjustFailureReturnsFailureValue ==
    /\ AdjustFailedInCreateFileW =>
          last.out.status = INVALID_HANDLE_VALUE /\ last.out.realCalls = 0
    /\ AdjustFailedInCreateProcessW => memo.ret = FALSE_ /\ memo.attempts = <<>>

\* what the code does: neither real function is called, Detoured_CreateFileW
\* returns the null handle and Detoured_CreateProcessW returns -1
C37_AdjustFailureReturnsOtherValues ==
    /\ AdjustFailedInCreateFileW =>
          last.out.status = NULL_HANDLE /\ last.out.realCalls = 0
    /\ AdjustFailedInCreateProcessW =>
          memo.ret = INVALID_FILE_ATTRIBUTES /\ memo.attempts = <<>>

\* Detoured_CreateFileW returned the null handle, which is not
\* INVALID_HANDLE_VALUE
C37_CreateFileWReturnsNull ==
    /\ AdjustFailedInCreateFileW
    /\ last.out.status = NULL_HANDLE
    /\ last.out.status # INVALID_HANDLE_VALUE

\* Detoured_CreateProcessW returned a value that is not zero
C37_CreateProcessWReturnsNonZero ==
    /\ AdjustFailedInCreateProcessW
    /\ memo.ret # FALSE_


NextCreateFile ==
    \E lpFileName \in CreateFilePaths : \E request \in CreateFileRequests :
        \E usn \in UsnOutcomes : Call_Detoured_CreateFileW(lpFileName, request, usn)

SpecCreateFile == InitCreateProcess /\ [][NextCreateFile]_vars

\* Real_CreateFileW returned a valid handle in the last call, and the
\* detour returned INVALID_HANDLE_VALUE
ValidHandleWasRejected ==
    /\ last.op = "CreateFileW"
    /\ last.out.opened # INVALID_HANDLE_VALUE
    /\ last.out.status = INVALID_HANDLE_VALUE

\* C38: whenever Real_CreateFileW returned a valid handle and
\* Detoured_CreateFileW returns INVALID_HANDLE_VALUE (no USN, chain denied,
\* final check denied), the handle was closed exactly once and has no
\* overlay; an overlay is registered only for a valid handle that is
\* returned
C38_RejectedHandleIsClosedOnce ==
    /\ ValidHandleWasRejected =>
          /\ last.out.exit \in {"usn", "chain", "final"}
          /\ last.out.closes = 1
          /\ ~last.out.overlay
    /\ (last.op = "CreateFileW" /\ last.out.overlay) =>
          /\ last.out.opened # INVALID_HANDLE_VALUE
          /\ last.out.status = last.out.opened
          /\ last.out.closes = 0

\* the final access check denied an open that had succeeded
C38_Witness ==
    /\ ValidHandleWasRejected
    /\ last.out.exit = "final"
    /\ last.out.closes = 1

\* the chain enforcement denied an open that had succeeded
C38_WitnessChain ==
    /\ ValidHandleWasRejected
    /\ last.out.exit = "chain"
    /\ last.out.closes = 1

\* the USN of a file that had been opened could not be read
C38_WitnessUsn ==
    /\ ValidHandleWasRejected
    /\ last.out.exit = "usn"
    /\ last.out.closes = 1

\* a valid handle was returned with an overlay
C38_WitnessOverlay ==
    /\ last.op = "CreateFileW"
    /\ last.out.overlay
    /\ last.out.status # INVALID_HANDLE_VALUE


(***************************************************************************)
(* Two processes walk the same path of the same file system, each from an *)
(* empty cache: one resolves reparse points fully and so runs              *)
(* ResolveAllReparsePointsAndEnforceAccess, the other ignores full         *)
(* resolving and so runs DetourGetFinalPaths.                              *)
(***************************************************************************)
MaxCompare == 2

ComparePaths == RepoPaths \cup {PathA, PathL, Below(PathD, <<"X">>)}

NoComparison == [op |-> "none", path |-> <<>>, handle |-> INVALID_HANDLE_VALUE, full |-> IdleWalk, legacy |-> IdleWalk]

\* EnforceChainOfReparsePointAccesses(path, hInput, GENERIC_READ, ...) in
\* the process whose flags are the current ones, its cache empty; the
\* walk is kept next to the walk the other process made of the same path
Call_EnforceChainInProcess(path, withHandle) ==
    /\ ops < MaxCompare
    /\ Let(IF withHandle THEN HandleOn(path) ELSE INVALID_HANDLE_VALUE, LAMBDA hInput :
       Let(EnforceChainOfReparsePointAccesses(EmptyCache, Canonicalize(path), hInput,
               {"GENERIC_READ"}, {"FILE_SHARE_READ"}, "OPEN_EXISTING",
               {"FILE_ATTRIBUTE_NORMAL"}, PolicyResult_Initialize(path), nullptr, TRUE,
               FALSE, TRUE, FALSE, DeviceOk), LAMBDA r :
       Let(IF last.op = "walkers" /\ last.path = path /\ last.handle = hInput
           THEN last
           ELSE [NoComparison EXCEPT !.op = "walkers", !.path = path, !.handle = hInput],
           LAMBDA before :
       /\ ops' = ops + 1
       /\ last' = IF r.walk.fn = "ResolveAll"
                  THEN [before EXCEPT !.full = r.walk]
                  ELSE [before EXCEPT !.legacy = r.walk]
       /\ UNCHANGED <<fs, cache, flags, manifest, walk, reports, memo>>)))

\* the next call is made in a process of the other configuration
InOtherProcess ==
    /\ flags' = [flags EXCEPT !.IgnoreFullReparsePointResolving = ~@]
    /\ UNCHANGED <<fs, cache, manifest, walk, reports, last, memo, ops>>

InitCompare ==
    /\ fs \in RepoLayouts \cup {InitialFs}
    /\ cache = EmptyCache
    /\ flags \in {Flags(FALSE, FALSE), Flags(FALSE, TRUE)}
    /\ manifest = Denying({})
    /\ walk = IdleWalk
    /\ reports = <<>>
    /\ last = NoComparison
    /\ memo = <<>>
    /\ ops = 0

NextCompare ==
    \/ \E path \in ComparePaths : \E withHandle \in BOOLEAN :
           Call_EnforceChainInProcess(path, withHandle)
    \/ InOtherProcess

SpecCompare == InitCompare /\ [][NextCompare]_vars

\* both walkers have returned from a walk of a path that is a reparse point
\* and neither met a cycle
BothWalkersResolved ==
    /\ last.op = "walkers"
    /\ last.full.fn = "ResolveAll"
    /\ last.legacy.fn = "DetourGetFinalPaths"
    /\ IsReparsePoint(Canonicalize(last.path), INVALID_HANDLE_VALUE)
    /\ ~last.full.cycle /\ ~last.legacy.cycle
    /\ last.full.order # <<>> /\ last.legacy.order # <<>>

FullyResolvedPathOfResolveAll == last.full.order[Len(last.full.order)]

LastPathOfDetourGetFinalPaths == last.legacy.order[Len(last.legacy.order)]

\* C34: for an input path that is a reparse point, the fully resolved path
\* of ResolveAllReparsePointsAndEnforceAccess is the last path of the chain
\* of DetourGetFinalPaths, also when a directory of the path is a junction
\* or a directory symlink and the target of the link is relative
C34_WalkersAgree ==
    BothWalkersResolved =>
        CacheKey(FullyResolvedPathOfResolveAll) = CacheKey(LastPathOfDetourGetFinalPaths)

\* the walkers agree on the links of the layout below a directory symlink
C34_WalkersAgreeBelowDirectorySymlink ==
    (BothWalkersResolved /\ fs \in RepoLayouts /\ SourceIsDirectorySymlink) =>
        CacheKey(FullyResolvedPathOfResolveAll) = CacheKey(LastPathOfDetourGetFinalPaths)

\* below a junction ResolveAllReparsePointsAndEnforceAccess ends on
\* repo\intermediate\target\file2.txt, DetourGetFinalPaths on
\* repo\target\file2.txt
C34_WalkersDisagreeBelowJunction ==
    /\ BothWalkersResolved
    /\ fs \in RepoLayouts
    /\ SourceIsJunction
    /\ last.path = Below(RepoSource, Symlink2)
    /\ FullyResolvedPathOfResolveAll = RepoMissing
    /\ LastPathOfDetourGetFinalPaths = Below(RepoTarget, File2)

\* the walkers agree below a directory symlink with a relative target
C34_WitnessDirectorySymlink ==
    /\ BothWalkersResolved
    /\ fs \in RepoLayouts
    /\ SourceIsDirectorySymlink
    /\ last.path = Below(RepoSource, Symlink1)
    /\ FullyResolvedPathOfResolveAll = Below(RepoTarget, File1)
    /\ LastPathOfDetourGetFinalPaths = Below(RepoTarget, File1)

\* a rooted target that names a path through a directory symlink:
\* DetourGetFinalPaths ends on C:\D\Y, the other walker on C:\E\Y
C34_WalkersDisagreeOnRootedTarget ==
    /\ BothWalkersResolved
    /\ fs = InitialFs
    /\ last.path = Below(PathD, <<"X">>)
    /\ FullyResolvedPathOfResolveAll = Below(PathE, <<"Y">>)
    /\ LastPathOfDetourGetFinalPaths = Below(PathD, <<"Y">>)


(***************************************************************************)
(* Two threads of one process and the cache they share.  One thread runs   *)
(* Detoured_DeleteFileW or Detoured_MoveFileWithProgressW on a file        *)
(* symlink, the other TryGetReparsePointTarget on the same path.  Every    *)
(* call on the cache and every call of the operating system is a step of   *)
(* its thread; the calls on the cache are atomic.                          *)
(***************************************************************************)
RacePaths == {PathA, PathL}

RaceOperations == {"DeleteFile", "MoveFileWithProgress"}

IdleMover == [pc |-> "start", moveDirectory |-> FALSE, policy |-> PolicyResult_Initialize(<<>>), destPolicy |-> PolicyResult_Initialize(<<>>), result |-> FALSE]

IdleResolver == [pc |-> "start", isReparsePoint |-> FALSE, target |-> <<>>, reparsePointType |-> 0, status |-> FALSE]

Race(operation, path) == [operation |-> operation, path |-> path, dest |-> PathO, mover |-> IdleMover, resolver |-> IdleResolver]

\* Detoured_DeleteFileW / Detoured_MoveFileWithProgressW up to the first
\* PathCache_Invalidate
Mover_Invalidate ==
    /\ memo.mover.pc = "start"
    /\ Let(IF memo.operation = "DeleteFile" THEN FALSE
           ELSE IsHandleOrPathToDirectory(INVALID_HANDLE_VALUE, memo.path, TRUE),
           LAMBDA moveDirectory :
       Let(PolicyResult_Initialize(memo.path), LAMBDA policyResult :
       /\ cache' = PathCache_Invalidate(cache, policyResult.path, moveDirectory, policyResult)
       /\ memo' = [memo EXCEPT !.mover.pc = "adjust", !.mover.policy = policyResult,
                               !.mover.moveDirectory = moveDirectory]
       /\ UNCHANGED <<fs, flags, manifest, walk, reports, last, ops>>))

\* AdjustOperationContextAndPolicyResultWithFullyResolvedPath of the path
\* (the source of a move)
Mover_Adjust ==
    /\ memo.mover.pc = "adjust"
    /\ Let(IF memo.operation = "DeleteFile"
           THEN AdjustOperationContextAndPolicyResultWithFullyResolvedPath(
                    cache, {"DELETE"},
                    {"FILE_FLAG_DELETE_ON_CLOSE", "FILE_FLAG_OPEN_REPARSE_POINT"},
                    memo.mover.policy, TRUE, DeviceOk)
           ELSE AdjustOperationContextAndPolicyResultWithFullyResolvedPath(
                    cache, {"GENERIC_READ", "DELETE"}, {"FILE_ATTRIBUTE_NORMAL"},
                    memo.mover.policy, ~memo.mover.moveDirectory, DeviceOk),
           LAMBDA adj :
       /\ cache' = adj.cache
       /\ reports' = reports \o adj.reports
       /\ memo' = [memo EXCEPT !.mover.policy = adj.policy,
                               !.mover.pc = IF ~adj.ret THEN "done"
                                            ELSE IF memo.operation = "DeleteFile" THEN "real"
                                            ELSE "adjustDest"]
       /\ UNCHANGED <<fs, flags, manifest, walk, last, ops>>)

\* Detoured_MoveFileWithProgressW: the policy of the destination and its
\* adjustment
Mover_AdjustDestination ==
    /\ memo.mover.pc = "adjustDest"
    /\ Let(AdjustOperationContextAndPolicyResultWithFullyResolvedPath(
               cache, {"GENERIC_WRITE"}, {"FILE_ATTRIBUTE_NORMAL"},
               PolicyResult_Initialize(memo.dest), ~memo.mover.moveDirectory, DeviceOk),
           LAMBDA adj :
       /\ cache' = adj.cache
       /\ reports' = reports \o adj.reports
       /\ memo' = [memo EXCEPT !.mover.destPolicy = adj.policy,
                               !.mover.pc = IF adj.ret THEN "real" ELSE "done"]
       /\ UNCHANGED <<fs, flags, manifest, walk, last, ops>>)

\* the write checks, the real function and the reports
Mover_Real ==
    /\ memo.mover.pc = "real"
    /\ Let(CheckWriteAccess(memo.mover.policy), LAMBDA accessCheck :
       Let(IF memo.operation = "DeleteFile" THEN accessCheck
           ELSE CheckWriteAccess(memo.mover.destPolicy), LAMBDA destAccessCheck :
       Let(IF memo.operation = "DeleteFile" THEN Real_DeleteFileW(fs, memo.path)
           ELSE Real_MoveFile(fs, memo.path, memo.dest), LAMBDA real :
       LET name == IF memo.operation = "DeleteFile" THEN "DeleteFile"
                   ELSE "MoveFileWithProgress_Source"
       IN  IF ShouldDenyAccess(accessCheck)
           THEN /\ reports' = reports \o OperationReport(name, accessCheck, memo.mover.policy)
                /\ memo' = [memo EXCEPT !.mover.pc = "done"]
                /\ UNCHANGED <<fs, cache, flags, manifest, walk, last, ops>>
           ELSE IF ShouldDenyAccess(destAccessCheck)
           THEN /\ reports' = reports \o OperationReport("MoveFileWithProgress_Dest",
                                                         destAccessCheck,
                                                         memo.mover.destPolicy)
                /\ memo' = [memo EXCEPT !.mover.pc = "done"]
                /\ UNCHANGED <<fs, cache, flags, manifest, walk, last, ops>>
           ELSE /\ fs' = real.fs
                /\ reports' = (reports \o OperationReport(name, accessCheck, memo.mover.policy))
                              \o (IF memo.operation = "DeleteFile" THEN <<>>
                                  ELSE OperationReport("MoveFileWithProgress_Dest",
                                                       destAccessCheck,
                                                       memo.mover.destPolicy))
                /\ memo' = [memo EXCEPT !.mover.pc = "done", !.mover.result = real.result]
                /\ UNCHANGED <<cache, flags, manifest, walk, last, ops>>)))

\* TryGetReparsePointTarget: PathCache_GetResolvingCheckResult
Resolver_GetResolvingCheckResult ==
    /\ memo.resolver.pc = "start"
    /\ Let(PathCache_GetResolvingCheckResult(cache, memo.path, PolicyResult_Initialize(memo.path)),
           LAMBDA result :
       /\ memo' = IF ~result.Found THEN [memo EXCEPT !.resolver.pc = "probe"]
                  ELSE IF result.Value
                  THEN [memo EXCEPT !.resolver.pc = "lookup", !.resolver.isReparsePoint = TRUE]
                  ELSE [memo EXCEPT !.resolver.pc = "done"]
       /\ UNCHANGED <<fs, cache, flags, manifest, walk, reports, last, ops>>)

\* isReparsePoint = IsReparsePoint(path.c_str(), hInput)
Resolver_IsReparsePoint ==
    /\ memo.resolver.pc = "probe"
    /\ memo' = [memo EXCEPT !.resolver.pc = "insert",
                            !.resolver.isReparsePoint =
                                IsReparsePoint(memo.path, INVALID_HANDLE_VALUE)]
    /\ UNCHANGED <<fs, cache, flags, manifest, walk, reports, last, ops>>

\* PathCache_InsertResolvingCheckResult(path, isReparsePoint, policyResult)
Resolver_InsertResolvingCheckResult ==
    /\ memo.resolver.pc = "insert"
    /\ cache' = PathCache_InsertResolvingCheckResult(cache, memo.path,
                                                     memo.resolver.isReparsePoint,
                                                     PolicyResult_Initialize(memo.path))
    /\ memo' = [memo EXCEPT !.resolver.pc = IF memo.resolver.isReparsePoint THEN "lookup"
                                            ELSE "done"]
    /\ UNCHANGED <<fs, flags, manifest, walk, reports, last, ops>>

\* PathCache_GetResolvedPathAndType
Resolver_GetResolvedPathAndType ==
    /\ memo.resolver.pc = "lookup"
    /\ Let(PathCache_GetResolvedPathAndType(cache, memo.path, PolicyResult_Initialize(memo.path)),
           LAMBDA io_result :
       /\ memo' = IF io_result.Found
                  THEN [memo EXCEPT !.resolver.pc = "done",
                                    !.resolver.target = io_result.Value.first,
                                    !.resolver.reparsePointType = io_result.Value.second,
                                    !.resolver.status = io_result.Value.second # 0]
                  ELSE [memo EXCEPT !.resolver.pc = "open"]
       /\ UNCHANGED <<fs, cache, flags, manifest, walk, reports, last, ops>>)

\* CreateFileW(path, ..., FILE_FLAG_OPEN_REPARSE_POINT | ...) and
\* DeviceIoControl(hFile, FSCTL_GET_REPARSE_POINT, ...) on the handle
Resolver_ReadReparsePoint ==
    /\ memo.resolver.pc = "open"
    /\ Let(OsObject(fs, memo.path), LAMBDA hFile :
       Let(IF hFile \in DOMAIN fs THEN fs[hFile] ELSE NoObject, LAMBDA node :
       Let(hFile \in DOMAIN fs /\ node.tag > 0 /\ IsActionableReparsePointType(node.tag),
           LAMBDA success :
       /\ memo' = [memo EXCEPT !.resolver.pc = "store",
                               !.resolver.status = success,
                               !.resolver.reparsePointType = IF success THEN node.tag ELSE 0,
                               !.resolver.target =
                                   IF success
                                   THEN GetTargetNameFromReparseData(node, node.tag, <<>>)
                                   ELSE <<>>]
       /\ UNCHANGED <<fs, cache, flags, manifest, walk, reports, last, ops>>)))

\* PathCache_InsertResolvedPathWithType(path, target, reparsePointType or
\* 0x0, policyResult), and the return
Resolver_InsertResolvedPathWithType ==
    /\ memo.resolver.pc = "store"
    /\ cache' = PathCache_InsertResolvedPathWithType(cache, memo.path, memo.resolver.target,
                                                     memo.resolver.reparsePointType,
                                                     PolicyResult_Initialize(memo.path))
    /\ memo' = [memo EXCEPT !.resolver.pc = "done"]
    /\ UNCHANGED <<fs, flags, manifest, walk, reports, last, ops>>

InitRace ==
    /\ fs = InitialFs
    /\ cache = EmptyCache
    /\ flags \in {Flags(FALSE, FALSE), Flags(FALSE, TRUE)}
    /\ manifest \in {Denying({}), Denying({PathT})}
    /\ walk = IdleWalk
    /\ reports = <<>>
    /\ last = NoCall
    /\ memo \in {Race(operation, path) : operation \in RaceOperations, path \in RacePaths}
    /\ ops = 0

NextRace ==
    \/ Mover_Invalidate
    \/ Mover_Adjust
    \/ Mover_AdjustDestination
    \/ Mover_Real
    \/ Resolver_GetResolvingCheckResult
    \/ Resolver_IsReparsePoint
    \/ Resolver_InsertResolvingCheckResult
    \/ Resolver_GetResolvedPathAndType
    \/ Resolver_ReadReparsePoint
    \/ Resolver_InsertResolvedPathWithType

SpecRace == InitRace /\ [][NextRace]_vars

BothThreadsReturned == memo.mover.pc = "done" /\ memo.resolver.pc = "done"

\* the link is gone from its name
LinkWasRemoved == memo.mover.result /\ ~PathExists(fs, memo.path)

FormerTarget == InitialFs[FsKey(memo.path)].substituteName

\* the cache holds a memo that says the path is a reparse point, or one
\* that gives it its former target
MemoOfFormerLink ==
    \/ /\ CacheKey(memo.path) \in DOMAIN cache.check
       /\ cache.check[CacheKey(memo.path)]
    \/ /\ CacheKey(memo.path) \in DOMAIN cache.target
       /\ cache.target[CacheKey(memo.path)].second # 0
       /\ cache.target[CacheKey(memo.path)].first = FormerTarget

\* C35: a thread deletes or moves the symlink P while another thread
\* resolves P; once both have returned, whatever the interleaving of their
\* steps, the cache holds no memo that says P is a reparse point with its
\* former target
C35_NoMemoOfRemovedLink ==
    (BothThreadsReturned /\ LinkWasRemoved) => ~MemoOfFormerLink

\* what the invalidations do achieve: when the resolver has not started
\* before Detoured_DeleteFileW returns, the deletion leaves no memo
C35_DeleteAloneLeavesNoMemo ==
    (memo.operation = "DeleteFile" /\ memo.mover.pc = "done" /\ LinkWasRemoved
     /\ memo.resolver.pc = "start") => ~MemoOfFormerLink

\* the resolver stored its memo between the last invalidation of
\* Detoured_DeleteFileW and Real_DeleteFileW
C35_MemoSurvivesDelete ==
    /\ memo.operation = "DeleteFile"
    /\ BothThreadsReturned
    /\ LinkWasRemoved
    /\ MemoOfFormerLink

\* the memo that the adjustment of Detoured_MoveFileWithProgressW itself
\* stored is still there after the move
C35_MemoSurvivesMove ==
    /\ memo.operation = "MoveFileWithProgress"
    /\ BothThreadsReturned
    /\ LinkWasRemoved
    /\ MemoOfFormerLink


(***************************************************************************)
(* The last error EnforceReparsePointAccess leaves when it returns false,  *)
(* under manifests that deny paths and manifests that have no policy for   *)
(* some paths.                                                             *)
(***************************************************************************)
InitFailure ==
    /\ fs = InitialFs
    /\ cache = EmptyCache
    /\ flags \in {Flags(FALSE, FALSE), Flags(FALSE, TRUE)}
    /\ manifest \in IndeterminateManifests \cup {Denying(paths) : paths \in DenySets}
    /\ walk = IdleWalk
    /\ reports = <<>>
    /\ last = NoCall
    /\ memo = <<>>
    /\ ops = 0

SpecFailure == InitFailure /\ [][NextEnforce]_vars

EnforceReparsePointAccessFailed == last.op = "EnforceReparsePointAccess" /\ ~last.ret.ret

\* C36: whenever EnforceReparsePointAccess returns false the last error of
\* the thread is a failure code that the call produced (the denial error of
\* the decision, or the error set with the report of an indeterminate
\* policy), never the value the last error had before the call
C36_FailureLeavesItsOwnError ==
    EnforceReparsePointAccessFailed =>
        /\ last.ret.lastError # ERROR_SUCCESS
        /\ ShouldDenyAccess(last.ret.accessCheck) =>
               last.ret.lastError = DenialError(last.ret.accessCheck)

\* what the code does: a denial leaves the denial error of the decision, a
\* path without a policy leaves the last error of the entry
C36_OnlyDenialLeavesItsOwnError ==
    EnforceReparsePointAccessFailed =>
        IF NoPolicyFor(last.args.path)
        THEN last.ret.lastError = last.args.lastError
        ELSE /\ ShouldDenyAccess(last.ret.accessCheck)
             /\ last.ret.lastError = DenialError(last.ret.accessCheck)
             /\ last.ret.lastError # ERROR_SUCCESS

\* the call failed for a path without a policy and the thread is left with
\* ERROR_SUCCESS, the value of the entry
C36_FailureWithErrorSuccess ==
    /\ EnforceReparsePointAccessFailed
    /\ NoPolicyFor(last.args.path)
    /\ last.args.lastError = ERROR_SUCCESS
    /\ last.ret.lastError = ERROR_SUCCESS

\* a denial replaced the last error of the entry
C36_DenialReplacesLastError ==
    /\ EnforceReparsePointAccessFailed
    /\ ShouldDenyAccess(last.ret.accessCheck)
    /\ last.args.lastError = ERROR_FILE_NOT_FOUND
    /\ last.ret.lastError = ERROR_ACCESS_DENIED


(***************************************************************************)
(* TryResolveRelativeTarget(path, relativeTarget, result, policyResult)    *)
(* with one step per pass through `while (!needToBeProcessed.empty())`,    *)
(* on layouts without and with directory symlinks that point at each      *)
(* other.                                                                  *)
(***************************************************************************)
MaxResolve == 2

\* C:\P and C:\Q are directory symlinks that point at each other, with
\* rooted or with relative targets
MutualLinks(rooted) ==
    (FsKey(PathP) :> SymlinkTo(IF rooted THEN PathQ ELSE <<"Q">>, TRUE)) @@
    (FsKey(PathQ) :> SymlinkTo(IF rooted THEN PathP ELSE <<"P">>, TRUE)) @@
    (FsKey(PathT) :> File)

ResolveLayouts == RepoLayouts \cup {InitialFs} \cup {MutualLinks(rooted) : rooted \in BOOLEAN}

ResolvePaths == RepoPaths \cup {Below(PathD, <<"X">>), PathL, Below(PathP, <<"X">>)}

LastAtomTargets == {<<"T">>, <<".", ".", "\\", "T">>}

IdleResolve == [pc |-> "idle", path |-> <<>>, relativeTarget |-> <<>>, result |-> <<>>, processed |-> <<>>, needToBeProcessed |-> <<>>, ret |-> FALSE, seen |-> {}, repeats |-> FALSE]

\* one pass through the body of the loop
PrefixIteration(c, result, processed, needToBeProcessed, policyResult, dev) ==
    Let(needToBeProcessed[Len(needToBeProcessed)], LAMBDA atom :
    Let(SubSeq(needToBeProcessed, 1, Len(needToBeProcessed) - 1), LAMBDA need1 :
    Let(Append(processed, atom), LAMBDA processed1 :
    Let((IF result # <<>> /\ result[Len(result)] # "\\" /\ atom[1] # "\\"
         THEN Append(result, "\\") ELSE result) \o atom, LAMBDA result2 :
    LET Go(state, res, proc, need, c2) ==
            [state |-> state, result |-> res, processed |-> proc,
             needToBeProcessed |-> need, cache |-> c2]
    IN  IF need1 = <<>> THEN Go("break", result2, processed1, need1, c)
        ELSE IF GetReparsePointType(result2, INVALID_HANDLE_VALUE) = IO_REPARSE_TAG_SYMLINK
        THEN Let(TryGetReparsePointTarget(c, result2, INVALID_HANDLE_VALUE, <<>>,
                                          policyResult, dev), LAMBDA r :
             IF ~r.status THEN Go("false", result2, processed1, need1, r.cache)
             ELSE IF GetRootLength(r.target) > 0
             THEN Go("loop", <<>>, <<>>, SplitPathsReverse(r.target, need1), r.cache)
             ELSE Let(TryResolveRelativeTargetSimple(result2, r.target, processed1, need1,
                                                     TRUE), LAMBDA t :
                  IF ~t.ok THEN Go("false", t.result, t.processed, t.need, r.cache)
                  ELSE Go("loop", t.result, t.processed, t.need, r.cache)))
        ELSE Go("loop", result2, processed1, need1, c)))))

\* the call, up to the loop
Call_TryResolveRelativeTarget(path, relativeTarget) ==
    /\ ops < MaxResolve
    /\ memo.pc \in {"idle", "done"}
    /\ ops' = ops + 1
    /\ memo' = [IdleResolve EXCEPT !.pc = "loop", !.path = path,
                                   !.relativeTarget = relativeTarget,
                                   !.needToBeProcessed = SplitPathsReverse(path, <<>>)]
    /\ UNCHANGED <<fs, cache, flags, manifest, walk, reports, last>>

\* while (!needToBeProcessed.empty()) { ... }
TryResolveRelativeTarget_Loop ==
    /\ memo.pc = "loop"
    /\ IF memo.needToBeProcessed = <<>>
       THEN /\ memo' = [memo EXCEPT !.pc = "last"]
            /\ UNCHANGED cache
       ELSE Let(PrefixIteration(cache, memo.result, memo.processed, memo.needToBeProcessed,
                                PolicyResult_Initialize(memo.path), DeviceOk), LAMBDA it :
            /\ cache' = it.cache
            /\ memo' = [memo EXCEPT
                   !.pc = CASE it.state = "break" -> "last"
                            [] it.state = "false" -> "done"
                            [] OTHER -> "loop",
                   !.result = it.result,
                   !.processed = it.processed,
                   !.needToBeProcessed = it.needToBeProcessed,
                   !.seen = @ \cup {<<memo.result, memo.needToBeProcessed>>},
                   !.repeats = it.state = "loop"
                               /\ <<it.result, it.needToBeProcessed>> \in
                                      memo.seen \cup {<<memo.result, memo.needToBeProcessed>>}])
    /\ UNCHANGED <<fs, flags, manifest, walk, reports, last, ops>>

\* the last atom: TryResolveRelativeTarget(result, relativeTarget, nullptr,
\* nullptr), and the return
TryResolveRelativeTarget_LastAtom ==
    /\ memo.pc = "last"
    /\ Let(TryResolveRelativeTargetSimple(memo.result, memo.relativeTarget, <<>>, <<>>, FALSE),
           LAMBDA t :
       /\ memo' = [memo EXCEPT !.pc = "done", !.result = t.result, !.ret = t.ok]
       /\ last' = [op |-> "TryResolveRelativeTarget", path |-> memo.path,
                   relativeTarget |-> memo.relativeTarget, ok |-> t.ok, result |-> t.result]
       /\ UNCHANGED <<fs, cache, flags, manifest, walk, reports, ops>>)

InitResolve ==
    /\ fs \in ResolveLayouts
    /\ cache = EmptyCache
    /\ flags \in {Flags(FALSE, FALSE), Flags(FALSE, TRUE)}
    /\ manifest = Denying({})
    /\ walk = IdleWalk
    /\ reports = <<>>
    /\ last = NoCall
    /\ memo = IdleResolve
    /\ ops = 0

NextResolve ==
    \/ \E path \in ResolvePaths : \E relativeTarget \in LastAtomTargets :
           Call_TryResolveRelativeTarget(path, relativeTarget)
    \/ TryResolveRelativeTarget_Loop
    \/ TryResolveRelativeTarget_LastAtom

SpecResolve == InitResolve /\ [][NextResolve]_vars

InPrefixLoop == memo.pc = "loop"

\* the thread in the function runs.  A pass through the loop is possible
\* exactly when the thread is in the loop, so weak fairness of the pass,
\* <>[](ENABLED <<pass>>_vars) => []<><<pass>>_vars, is stated with that
\* predicate; the last atom is resolved under weak fairness as well
SpecResolveFair ==
    /\ SpecResolve
    /\ ([]<>(~InPrefixLoop) \/ []<><<TryResolveRelativeTarget_Loop>>_vars)
    /\ WF_vars(TryResolveRelativeTarget_LastAtom)

ResolverReturned == memo.pc = "done"

\* C:\P and C:\Q point at each other (in the initial file system as well,
\* where they are file symlinks) and the path goes through C:\P
HasMutualLinks ==
    /\ FsKey(PathP) \in DOMAIN fs
    /\ fs[FsKey(PathP)].tag = IO_REPARSE_TAG_SYMLINK
    /\ IsPathPrefix(PathP, memo.path)

\* C39: TryResolveRelativeTarget with a policy terminates on every file
\* system, also when directory symlinks in the prefix of the path point at
\* each other with rooted or relative targets: a call that has entered the
\* loop returns, with a result or a failure
C39_ResolverTerminates == InPrefixLoop ~> ResolverReturned

\* on the layouts without mutual links the call returns
C39_ResolverTerminatesWithoutMutualLinks ==
    (InPrefixLoop /\ ~HasMutualLinks) ~> ResolverReturned

\* the steps agree with the function computed at once, whenever that one
\* comes to an end
C39_StepsComputeTheFunction ==
    (memo.pc = "done" /\ memo.ret) =>
        Let(TryResolveRelativeTarget(EmptyCache, memo.path, memo.relativeTarget, <<>>,
                                     PolicyResult_Initialize(memo.path), DeviceOk), LAMBDA t :
            t.ok /\ t.result = memo.result)

\* the loop is back in a state of result and needToBeProcessed that it was
\* in before, through rooted targets
C39_LoopRepeatsOnRootedLinks ==
    /\ fs = MutualLinks(TRUE)
    /\ InPrefixLoop
    /\ memo.repeats
    /\ memo.path = Below(PathP, <<"X">>)

\* the same through relative targets
C39_LoopRepeatsOnRelativeLinks ==
    /\ fs = MutualLinks(FALSE)
    /\ InPrefixLoop
    /\ memo.repeats
    /\ memo.path = Below(PathP, <<"X">>)

\* a call that returned its result after a restart from a rooted target
C39_ReturnedAfterRestart ==
    /\ ResolverReturned
    /\ memo.ret
    /\ fs = InitialFs
    /\ memo.path = Below(PathD, <<"X">>)
    /\ memo.relativeTarget = <<"T">>
    /\ memo.result = Below(PathE, <<"T">>)


(***************************************************************************)
(* The last error of the thread through IsReparsePoint,                    *)
(* GetReparsePointType and TryGetReparsePointTarget.  Every call of the    *)
(* operating system leaves a value in it: its error code when it fails,    *)
(* and a value that is drawn (noise) when it succeeds.                     *)
(***************************************************************************)
MaxLastErrorCalls == 2

\* SetLastError that leaves the last error as it is
SetLastError_Ignored(dwErrCode, current) == current

\* SetLastError(dwErrCode) while the last error is current
SetLastError(dwErrCode, current) == dwErrCode

\* a handle that names no object
ClosedHandle == <<"closed">>

\* IsReparsePoint: the value and the last error it returns with
IsReparsePoint_LastError(entry, lpFileName, hFile, noise) ==
    LET lastError == entry
        \* GetFileInformationByHandle(hFile, &fileInfo)
        result == hFile # INVALID_HANDLE_VALUE /\ hFile \in DOMAIN fs
        afterInformation == IF hFile = INVALID_HANDLE_VALUE THEN entry
                            ELSE IF result THEN noise
                            ELSE ERROR_ACCESS_DENIED
        \* GetFileAttributesW(lpFileName)
        afterAttributes == IF PathExists(fs, lpFileName) THEN noise
                           ELSE ERROR_FILE_NOT_FOUND
    IN  IF result
        THEN [ret |-> IsReparsePoint(lpFileName, hFile), before |-> afterInformation,
              lastError |-> SetLastError(lastError, afterInformation), exit |-> "handle"]
        ELSE [ret |-> IsReparsePoint(lpFileName, hFile), before |-> afterAttributes,
              lastError |-> SetLastError(lastError, afterAttributes), exit |-> "path"]

\* GetReparsePointType: the value and the last error it returns with
GetReparsePointType_LastError(entry, lpFileName, hFile, noise) ==
    LET lastError == entry
    IN  Let(IsReparsePoint_LastError(entry, lpFileName, hFile, noise), LAMBDA is :
        \* FindFirstFileW(lpFileName, &findData) and FindClose
        Let(IF ~is.ret THEN is.lastError
            ELSE IF OsNode(fs, lpFileName) # NoObject THEN noise
            ELSE ERROR_FILE_NOT_FOUND, LAMBDA afterFind :
        [ret |-> GetReparsePointType(lpFileName, hFile), before |-> afterFind,
         lastError |-> SetLastError(lastError, afterFind),
         exit |-> IF is.ret THEN "find" ELSE "none"]))

\* TryGetReparsePointTarget: the exit it takes and the last error it
\* returns with
TryGetReparsePointTarget_LastError(c, entry, path, hInput, policyResult, dev, noise) ==
    Let(PathCache_GetResolvingCheckResult(c, path, policyResult), LAMBDA result :
    Let(IsReparsePoint_LastError(entry, path, hInput, noise), LAMBDA is :
    Let(IF result.Found THEN result.Value ELSE is.ret, LAMBDA isReparsePoint :
    Let(IF result.Found THEN entry ELSE is.lastError, LAMBDA afterCheck :
    IF ~isReparsePoint
    THEN [before |-> afterCheck, lastError |-> afterCheck, exit |-> "return"]
    ELSE
      \* DWORD lastError = GetLastError();
      Let(afterCheck, LAMBDA lastError :
      Let(IF result.Found THEN c
          ELSE PathCache_InsertResolvingCheckResult(c, path, isReparsePoint, policyResult),
          LAMBDA c1 :
      Let(PathCache_GetResolvedPathAndType(c1, path, policyResult), LAMBDA io_result :
      IF io_result.Found
      THEN [before |-> afterCheck, lastError |-> SetLastError(lastError, afterCheck),
            exit |-> IF io_result.Value.second = 0 THEN "Epilogue" ELSE "Success"]
      ELSE
        Let(OsObject(fs, path), LAMBDA object :
        Let(IF hInput # INVALID_HANDLE_VALUE THEN hInput
            ELSE IF dev.open /\ object \in DOMAIN fs THEN object
            ELSE INVALID_HANDLE_VALUE, LAMBDA hFile :
        \* CreateFileW(path, ...) when no handle is given
        Let(IF hInput # INVALID_HANDLE_VALUE THEN afterCheck
            ELSE IF hFile = INVALID_HANDLE_VALUE THEN ERROR_ACCESS_DENIED
            ELSE noise, LAMBDA afterOpen :
        IF hFile = INVALID_HANDLE_VALUE
        THEN [before |-> afterOpen, lastError |-> SetLastError(lastError, afterOpen),
              exit |-> "Error"]
        ELSE
          Let(IF hFile \in DOMAIN fs THEN fs[hFile] ELSE NoObject, LAMBDA node :
          Let(DeviceIoControlLoop(
                  ERROR_INSUFFICIENT_BUFFER,
                  INITIAL_REPARSE_DATA_BUILDXL_DETOURS_BUFFER_SIZE_FOR_FILE_NAMES,
                  IF node.tag > 0 THEN dev.replies ELSE <<ERROR_NOT_A_REPARSE_POINT>>,
                  0), LAMBDA loop :
          \* DeviceIoControl, then CloseHandle(hFile) in the Epilogue
          Let(IF loop.errorCode = ERROR_SUCCESS THEN noise ELSE loop.errorCode,
              LAMBDA afterControl :
          Let(IF Epilogue_CloseHandle(hFile, hInput) > 0 THEN noise ELSE afterControl,
              LAMBDA afterClose :
          [before |-> afterClose, lastError |-> SetLastError(lastError, afterClose),
           exit |-> IF loop.errorCode # ERROR_SUCCESS
                       \/ ~IsActionableReparsePointType(node.tag)
                    THEN "Error" ELSE "Success"]))))))))))))))

EntryLastErrors == {ERROR_SUCCESS, ERROR_FILE_NOT_FOUND}

NoiseOfCalls == {ERROR_SUCCESS, ERROR_MORE_DATA}

LastErrorPaths == {PathA, PathT, PathN, PathO}

HandlesFor(path) == {INVALID_HANDLE_VALUE, ClosedHandle} \cup ({HandleOn(path)} \ {<<>>})

Call_IsReparsePoint(entry, lpFileName, hFile, noise) ==
    /\ ops < MaxLastErrorCalls
    /\ Let(IsReparsePoint_LastError(entry, lpFileName, hFile, noise), LAMBDA r :
       /\ ops' = ops + 1
       /\ last' = [op |-> "IsReparsePoint",
                   args |-> [lastError |-> entry, path |-> lpFileName, handle |-> hFile,
                             noise |-> noise, dev |-> DeviceOk],
                   ret |-> r.ret, before |-> r.before, lastError |-> r.lastError,
                   exit |-> r.exit]
       /\ UNCHANGED <<fs, cache, flags, manifest, walk, reports, memo>>)

Call_GetReparsePointType(entry, lpFileName, hFile, noise) ==
    /\ ops < MaxLastErrorCalls
    /\ Let(GetReparsePointType_LastError(entry, lpFileName, hFile, noise), LAMBDA r :
       /\ ops' = ops + 1
       /\ last' = [op |-> "GetReparsePointType",
                   args |-> [lastError |-> entry, path |-> lpFileName, handle |-> hFile,
                             noise |-> noise, dev |-> DeviceOk],
                   ret |-> r.ret > 0, before |-> r.before, lastError |-> r.lastError,
                   exit |-> r.exit]
       /\ UNCHANGED <<fs, cache, flags, manifest, walk, reports, memo>>)

Call_TryGetReparsePointTarget_LastError(entry, path, hInput, dev, noise) ==
    /\ ops < MaxLastErrorCalls
    /\ Let(PolicyResult_Initialize(path), LAMBDA policyResult :
       Let(TryGetReparsePointTarget(cache, path, hInput, <<>>, policyResult, dev), LAMBDA t :
       Let(TryGetReparsePointTarget_LastError(cache, entry, path, hInput, policyResult, dev,
                                              noise), LAMBDA r :
       /\ ops' = ops + 1
       /\ cache' = t.cache
       /\ last' = [op |-> "TryGetReparsePointTarget",
                   args |-> [lastError |-> entry, path |-> path, handle |-> hInput,
                             noise |-> noise, dev |-> dev],
                   ret |-> t.status, before |-> r.before, lastError |-> r.lastError,
                   exit |-> r.exit]
       /\ UNCHANGED <<fs, flags, manifest, walk, reports, memo>>)))

InitLastError ==
    /\ fs = InitialFs
    /\ cache = EmptyCache
    /\ flags \in {Flags(FALSE, FALSE), Flags(FALSE, TRUE)}
    /\ manifest = Denying({})
    /\ walk = IdleWalk
    /\ reports = <<>>
    /\ last = NoCall
    /\ memo = <<>>
    /\ ops = 0

NextLastError ==
    \/ \E entry \in EntryLastErrors : \E noise \in NoiseOfCalls :
          \E path \in LastErrorPaths : \E hFile \in HandlesFor(path) :
             Call_IsReparsePoint(entry, path, hFile, noise)
    \/ \E entry \in EntryLastErrors : \E noise \in NoiseOfCalls :
          \E path \in LastErrorPaths : \E hFile \in HandlesFor(path) :
             Call_GetReparsePointType(entry, path, hFile, noise)
    \/ \E entry \in EntryLastErrors : \E noise \in NoiseOfCalls :
          \E path \in LastErrorPaths : \E hFile \in HandlesFor(path) :
             \E dev \in DeviceOutcomes :
                Call_TryGetReparsePointTarget_LastError(entry, path, hFile, dev, noise)

SpecLastError == InitLastError /\ [][NextLastError]_vars

ReparsePointQueryReturned ==
    last.op \in {"IsReparsePoint", "GetReparsePointType", "TryGetReparsePointTarget"}

\* C40: TryGetReparsePointTarget, IsReparsePoint and GetReparsePointType
\* return with the last error of the thread as it was on entry, on every
\* return path, whatever calls of the file system they make and however
\* those calls fail
C40_LastErrorIsAsOnEntry ==
    ReparsePointQueryReturned => last.lastError = last.args.lastError

\* TryGetReparsePointTarget left through Error: after DeviceIoControl failed
\* and CloseHandle ran, the last error was another one than on entry
C40_Witness ==
    /\ last.op = "TryGetReparsePointTarget"
    /\ last.exit = "Error"
    /\ last.args.dev = DeviceQueryFails
    /\ last.args.handle = INVALID_HANDLE_VALUE
    /\ last.before # last.args.lastError
    /\ last.lastError = last.args.lastError

\* IsReparsePoint fell back from a handle that names nothing to a path that
\* does not exist
C40_WitnessIsReparsePoint ==
    /\ last.op = "IsReparsePoint"
    /\ last.args.handle = ClosedHandle
    /\ last.args.path = PathO
    /\ last.args.lastError = ERROR_SUCCESS
    /\ last.before = ERROR_FILE_NOT_FOUND
    /\ last.lastError = ERROR_SUCCESS

\* GetReparsePointType of a link, FindFirstFileW leaving another value
C40_WitnessGetReparsePointType ==
    /\ last.op = "GetReparsePointType"
    /\ last.exit = "find"
    /\ last.ret
    /\ last.before # last.args.lastError
    /\ last.lastError = last.args.lastError

\* TryGetReparsePointTarget answered from the memo of the cache
C40_WitnessMemo ==
    /\ last.op = "TryGetReparsePointTarget"
    /\ last.exit = "Success"
    /\ last.before = last.args.lastError
    /\ ops = 2
    /\ last.args.dev = DeviceOpenFails
    /\ last.ret

\* the arguments drawn, and the calls made on them
PureInputs == ResolverInputs \cup TargetNameInputs \cup CombineInputs

InitPure ==
    /\ fs = InitialFs
    /\ cache = EmptyCache
    /\ flags = Flags(FALSE, FALSE)
    /\ manifest = Scopes({})
    /\ walk = IdleWalk
    /\ reports = <<>>
    /\ last \in PureInputs
    /\ memo = <<>>
    /\ ops = 0

NextPure ==
    \/ Apply_TryResolveRelativeTarget
    \/ Apply_GetTargetNameFromReparseData
    \/ Apply_Combine

SpecPure == InitPure /\ [][NextPure]_vars

====
